---- MODULE Spec2Model ----
(***************************************************************************)
(* Multi-book market-making agents of sn-79 (src/agents): the per-tick     *)
(* respond() handlers and the per-book state they keep.                    *)
(*                                                                         *)
(* Units.  Prices are integers counted in ticks (tick = 10^-priceDecimals).*)
(* Base quantities are integers counted in 10^-volumeDecimals units with   *)
(* volumeDecimals = 1 (2.5 base units are written 25).                     *)
(* Quote balances are counted in (quantity unit x tick).  A mid price is   *)
(* kept doubled (mid2 = bid + ask) and a wealth is kept doubled            *)
(* (2*quote + base*mid2) so that both stay integers.  Every fraction the   *)
(* code computes in floating point is computed here exactly, as a          *)
(* numerator over a positive denominator, and rounded where the code       *)
(* rounds (round(): half to even, int(): toward zero).  The EWMA of        *)
(* L3MarketMakerAgent is kept in parts per million, truncated.             *)
(***************************************************************************)
EXTENDS Integers, Sequences, FiniteSets, TLC

VARIABLES
  pc,            \* "idle": no request; "respond": respond() is due; "done": it ended
  state,         \* the MarketSimulationStateUpdate being answered
  accounts,      \* self.accounts: book id -> account (a missing id: no account)
  fault,         \* the exception injected into this tick: [book, at]
  response,      \* the FinanceAgentResponse instructions of the last respond()
  aborted,       \* TRUE when the last respond() raised instead of returning
  logged,        \* books for which the last respond() logged a caught exception
  tick_no,       \* number of state updates published so far
  replayed,      \* TRUE when the current update repeats the previous snapshot
  l3_books,      \* L3MarketMakerAgent._books: book id -> _BookState
  l3_client_id,  \* L3MarketMakerAgent._client_id
  l3_creator,    \* history: which validator's tick created each _books entry
  l3_pre,        \* history: _books as it was when the last respond() started
  l3_tripped,    \* history: the kill-switch fired in an earlier respond()
  l3_loss_at,    \* history: book id -> when its P&L fell below the loss threshold
  l3_cool_ticks, \* history: book id -> consecutive updates, up to the last one,
                 \* that found the book inside a cooldown window
  elite_last_mid,  \* EliteImbalanceMarketMaker._last_mid: validator -> book id -> mid2
  dom_last_mid,          \* DominantImbalanceMM._last_mid: validator -> book id -> mid2
  dom_ewma_var,          \* DominantImbalanceMM._ewma_var: validator -> book id -> variance
  dom_last_fill_ts,      \* DominantImbalanceMM._last_fill_ts: validator -> book id -> time
  dom_current_validator, \* DominantImbalanceMM.current_validator, optional
  dom_fills,             \* history: validator -> book id -> time of the last fill of
                         \* an order placed in that validator's session
  obi_book_state,        \* OrderBookImbalanceMarketMaker.book_state:
                         \* validator -> book id -> price_history
  smart_history,     \* SmartOrderBookAgent.mid_price_history, as doubled mids
  smart_volatility,  \* SmartOrderBookAgent.volatility, in units of 10^-5
  smart_inventory,   \* SmartOrderBookAgent.inventory: book id -> quantity
  smm_history,       \* SmartMarketMaker.history_manager: validator -> book id ->
                     \* doubled mids of the stored snapshots
  smm_updating,      \* SmartMarketMaker.history_manager.updating
  smm_pending,       \* the update handed to update_async and not yet stored, optional
  smm_sleeping,      \* respond is inside time.sleep(0.01) of its polling loop
  restarted,     \* history: a simulation start event arrived after the last
                 \* answered update
  fn_args,       \* the arguments of a helper called on its own, optional
  fn_result      \* what the helper returned, optional

l3vars == <<l3_books, l3_client_id, l3_creator, l3_tripped, l3_loss_at, l3_cool_ticks>>
domvars == <<dom_last_mid, dom_ewma_var, dom_last_fill_ts, dom_current_validator, dom_fills>>

\* what the agents keep between ticks
smmvars == <<smm_history, smm_updating, smm_pending, smm_sleeping>>
smartvars == <<smart_history, smart_volatility, smart_inventory, smmvars>>
agentvars == <<l3vars, elite_last_mid, domvars, obi_book_state, smartvars>>

\* a helper function called on its own
fnvars == <<fn_args, fn_result>>

\* everything a call of a helper leaves alone
tickvars == <<pc, state, accounts, fault, response, aborted, logged, tick_no, replayed,
              l3_pre, agentvars, restarted>>

vars == <<pc, state, accounts, fault, response, aborted, logged, tick_no, replayed,
          l3_pre, agentvars, restarted, fnvars>>

----------------------------------------------------------------------------
(* Bounds of the model *)

MaxTicks == 3          \* state updates per behaviour, one book
MaxTicksMulti == 2     \* state updates per behaviour, several books or validators
PublishInterval == 10  \* state.config.publish_interval, in time units
MaxLevels == 2          \* levels per side of a book handed to a helper
MaxDepth == 3           \* largest depth handed to a helper

----------------------------------------------------------------------------
(* Python numerics *)

Abs(x) == IF x < 0 THEN -x ELSE x
Min(a, b) == IF a < b THEN a ELSE b
Max(a, b) == IF a > b THEN a ELSE b

\* round(n/d) for d > 0: nearest integer, ties to the even one
RoundHalfEven(n, d) ==
  LET q == n \div d
      r == n % d
  IN  IF 2 * r < d THEN q
      ELSE IF 2 * r > d THEN q + 1
      ELSE IF q % 2 = 0 THEN q ELSE q + 1

\* int(n/d) for d > 0: truncation toward zero
IntTrunc(n, d) == IF n >= 0 THEN n \div d ELSE -((-n) \div d)

\* Exact fractions n/d with d > 0, kept in lowest terms
RECURSIVE GCD(_, _)
GCD(a, b) == IF b = 0 THEN a ELSE GCD(b, a % b)

R(n, d) == [n |-> n \div GCD(Abs(n), d), d |-> d \div GCD(Abs(n), d)]
RInt(k) == [n |-> k, d |-> 1]
\* the sum over the least common denominator, so that the products stay small
RAdd(a, b) ==
  R(a.n * (b.d \div GCD(a.d, b.d)) + b.n * (a.d \div GCD(a.d, b.d)),
    (a.d \div GCD(a.d, b.d)) * b.d)
RNeg(a) == [n |-> -a.n, d |-> a.d]
RSub(a, b) == RAdd(a, RNeg(b))
RMul(a, b) ==
  R((a.n \div GCD(Abs(a.n), b.d)) * (b.n \div GCD(Abs(b.n), a.d)),
    (a.d \div GCD(Abs(b.n), a.d)) * (b.d \div GCD(Abs(a.n), b.d)))
RLt(a, b) == a.n * (b.d \div GCD(a.d, b.d)) < b.n * (a.d \div GCD(a.d, b.d))
RAbs(a) == [n |-> Abs(a.n), d |-> a.d]
RMin(a, b) == IF RLt(a, b) THEN a ELSE b
RMax(a, b) == IF RLt(b, a) THEN a ELSE b
RRound(a) == RoundHalfEven(a.n, a.d)

\* an optional value: <<>> is None, <<v>> is v
NoneVal == <<>>
Some(v) == <<v>>
IsNone(o) == o = <<>>
Val(o) == o[1]

RECURSIVE SortedIds(_)
SortedIds(S) ==
  IF S = {} THEN <<>>
  ELSE LET m == CHOOSE x \in S : \A y \in S : x <= y
       IN  <<m>> \o SortedIds(S \ {m})

RECURSIVE SumQuantity(_)
SumQuantity(s) ==
  IF s = <<>> THEN 0 ELSE Head(s).quantity + SumQuantity(Tail(s))

Take(s, n) == SubSeq(s, 1, Min(n, Len(s)))

RECURSIVE SeqToSet(_)
SeqToSet(s) == IF s = <<>> THEN {} ELSE {Head(s)} \cup SeqToSet(Tail(s))

RECURSIVE OrderIds(_)
OrderIds(orders) ==
  IF orders = <<>> THEN <<>> ELSE <<Head(orders).id>> \o OrderIds(Tail(orders))

----------------------------------------------------------------------------
(* Instructions of a FinanceAgentResponse *)

Cancel(b, ids) ==
  [kind |-> "cancel", book |-> b, ids |-> ids, side |-> "-", qty |-> 0,
   price |-> 0, tif |-> "-", postOnly |-> FALSE, expiry |-> NoneVal]

Limit(b, side, qty, price, tif, postOnly, expiry) ==
  [kind |-> "limit", book |-> b, ids |-> <<>>, side |-> side, qty |-> qty,
   price |-> price, tif |-> tif, postOnly |-> postOnly, expiry |-> expiry]

Market(b, side, qty) ==
  [kind |-> "market", book |-> b, ids |-> <<>>, side |-> side, qty |-> qty,
   price |-> 0, tif |-> "-", postOnly |-> FALSE, expiry |-> NoneVal]

EmptyMap == [x \in {} |-> 0]

\* dict.get(k, default)
Lookup(m, k, default) == IF k \in DOMAIN m THEN m[k] ELSE default

NoFault == [book |-> 0, at |-> "none"]
FaultAt(b, at) == fault.book = b /\ fault.at = at

----------------------------------------------------------------------------
(* L3MarketMakerAgent *)

depth_levels == 5
min_half_spread_ticks == 1
max_half_spread_ticks == 6
inside_tick_if_safe == 1
inv_cap_base == 40             \* 4.0 base units
inv_soft_cap_base == 20        \* 2.0 base units
max_skew_ticks == 6
min_order_size == 2            \* 0.2 base units
max_order_size == 25           \* 2.5 base units
size_frac_top_permille == 15   \* 0.015
max_order_age_tenths == 22     \* max_order_age_mult = 2.2
reprice_ticks == 1
vol_ewma_alpha_pct == 12       \* 0.12
vol_toxic_threshold_ppm == 1500 \* 0.0015
imb_toxic_threshold_pct == 55  \* 0.55
trade_imb_toxic_threshold_pct == 65 \* 0.65
cooldown_tenths == 15          \* cooldown_mult = 1.5
loss_cooldown_tenths == 60     \* loss_cooldown_mult = 6.0
dd_stop_pct == 2               \* dd_stop_frac = 0.02
hard_flatten_pct == 80         \* hard_flatten_frac = 0.80
l3_expiry_tenths == 22         \* expiry = int(2.2 * publish_interval)
l3_detailed_depth == 5         \* levels[:5] in _queue_ahead
l3_client_id0 == 10000

L3BookState0 ==
  [base_target |-> NoneVal, wealth0 |-> NoneVal, mid_last |-> NoneVal,
   vol_ewma |-> 0, cooldown_until |-> 0, loss_cooldown_until |-> 0]

L3_clamp(x, lo, hi) == IF x < lo THEN lo ELSE IF x > hi THEN hi ELSE x

L3_best_levels(book) ==
  IF book.bids = <<>> \/ book.asks = <<>>
  THEN [ok |-> FALSE, bid |-> 0, ask |-> 0, bidq |-> 0, askq |-> 0]
  ELSE [ok |-> TRUE, bid |-> book.bids[1].price, ask |-> book.asks[1].price,
        bidq |-> book.bids[1].quantity, askq |-> book.asks[1].quantity]

\* (bq - aq) / (bq + aq) as numerator n over denominator d > 0
L3_depth_imbalance(book, depth) ==
  LET bq == SumQuantity(Take(book.bids, depth))
      aq == SumQuantity(Take(book.asks, depth))
  IN  IF bq + aq <= 0 THEN [n |-> 0, d |-> 1]
      ELSE [n |-> bq - aq, d |-> bq + aq]

L3_trade_imbalance(book) ==
  LET trades == SelectSeq(book.events, LAMBDA ev : ev.type = "t")
      buy == SumQuantity(SelectSeq(trades, LAMBDA ev : ev.side = 0))
      sell == SumQuantity(SelectSeq(trades, LAMBDA ev : ev.side # 0))
  IN  IF buy + sell <= 0 THEN [n |-> 0, d |-> 1]
      ELSE [n |-> buy - sell, d |-> buy + sell]

L3_open_orders_by_side(account) ==
  [bids |-> SelectSeq(account.orders, LAMBDA o : o.side = "BUY"),
   asks |-> SelectSeq(account.orders, LAMBDA o : o.side # "BUY")]

RECURSIVE L3_ahead(_, _)
L3_ahead(orders, my_order_id) ==
  IF orders = <<>> \/ Head(orders).id = my_order_id THEN 0
  ELSE Head(orders).quantity + L3_ahead(Tail(orders), my_order_id)

\* my_order_id is optional; the result is optional
L3_queue_ahead(book, side, price, my_order_id) ==
  LET levels == Take(IF side = "BUY" THEN book.bids ELSE book.asks, l3_detailed_depth)
      hits == SelectSeq(levels, LAMBDA lvl : lvl.price = price)
  IN  IF hits = <<>> THEN NoneVal
      ELSE IF hits[1].orders = <<>> THEN NoneVal
      ELSE IF IsNone(my_order_id) THEN Some(SumQuantity(hits[1].orders))
      ELSE Some(L3_ahead(hits[1].orders, Val(my_order_id)))

\* twice the marked-to-mid wealth
L3_wealth2(account, mid2) == 2 * account.own_quote + account.own_base * mid2

\* max(orders, key=price) / min(orders, key=price): the first extremal element
RECURSIVE L3_max_price(_)
L3_max_price(orders) ==
  IF Len(orders) = 1 THEN orders[1]
  ELSE LET rest == L3_max_price(Tail(orders))
       IN  IF rest.price > Head(orders).price THEN rest ELSE Head(orders)

RECURSIVE L3_min_price(_)
L3_min_price(orders) ==
  IF Len(orders) = 1 THEN orders[1]
  ELSE LET rest == L3_min_price(Tail(orders))
       IN  IF rest.price < Head(orders).price THEN rest ELSE Head(orders)

\* lines 174-177: a book seen for the first time gets a fresh _BookState
L3_ensure(store, b) ==
  IF b \in DOMAIN store THEN store ELSE store @@ (b :> L3BookState0)

\* lines 187-190: the baselines are set only while they are None
L3_baseline(bs, account, wealth) ==
  [bs EXCEPT !.base_target = IF IsNone(@) THEN Some(account.own_base) ELSE @,
             !.wealth0 = IF IsNone(@) THEN Some(wealth) ELSE @]

\* lines 192-195: the book's P&L and baseline join the aggregates
L3_aggregate(acc, b, bs1, wealth) ==
  [acc EXCEPT !.store = [@ EXCEPT ![b] = bs1],
              !.total_pnl = @ + (wealth - Val(bs1.wealth0)),
              !.total_w0 = @ + Val(bs1.wealth0)]

\* lines 178-195 for one book whose _BookState exists
L3_first_pass_book(acc, b, book, accts) ==
  IF b \notin DOMAIN accts \/ ~L3_best_levels(book).ok THEN acc
  ELSE L3_aggregate(acc, b,
         L3_baseline(acc.store[b], accts[b],
                     L3_wealth2(accts[b], L3_best_levels(book).bid + L3_best_levels(book).ask)),
         L3_wealth2(accts[b], L3_best_levels(book).bid + L3_best_levels(book).ask))

\* First pass of respond (lines 173-195) over the books `ids`, in order.
\* acc holds the store, the aggregate P&L and baseline (both doubled), and
\* whether an exception escaped (the first pass is outside every try block).
RECURSIVE L3_first_pass(_, _, _, _)
L3_first_pass(ids, books, accts, acc) ==
  IF ids = <<>> THEN acc
  ELSE IF FaultAt(Head(ids), "first_pass")
  THEN [acc EXCEPT !.store = L3_ensure(@, Head(ids)), !.raised = TRUE]
  ELSE L3_first_pass(Tail(ids), books, accts,
         L3_first_pass_book([acc EXCEPT !.store = L3_ensure(@, Head(ids))],
                            Head(ids), books[Head(ids)], accts))

\* total_w0 > 0 and total_pnl < -dd_stop_frac * total_w0 (line 197)
L3_kill_switch(total_pnl, total_w0) ==
  total_w0 > 0 /\ 100 * total_pnl < -(dd_stop_pct * total_w0)

\* A kill-switch that cancels the orders of the first account only
L3_cancel_first_only(ids, accts) ==
  IF ids = <<>> \/ accts[Head(ids)].orders = <<>> THEN <<>>
  ELSE <<Cancel(Head(ids), OrderIds(accts[Head(ids)].orders))>>

\* lines 199-201: one cancel per account that has orders
RECURSIVE L3_cancel_all(_, _)
L3_cancel_all(ids, accts) ==
  IF ids = <<>> THEN <<>>
  ELSE (IF accts[Head(ids)].orders # <<>>
        THEN <<Cancel(Head(ids), OrderIds(accts[Head(ids)].orders))>>
        ELSE <<>>) \o L3_cancel_all(Tail(ids), accts)

\* lines 230-232: EWMA of the per-step mid move, in ppm
L3_vol_update(bs, mid2) ==
  IF IsNone(bs.mid_last) THEN bs.vol_ewma
  ELSE LET step_ret == (Abs(mid2 - Val(bs.mid_last)) * 1000000) \div mid2
       IN  ((100 - vol_ewma_alpha_pct) * bs.vol_ewma + vol_ewma_alpha_pct * step_ret) \div 100

\* line 240
L3_toxic(vol_ewma, imb, t_imb) ==
  \/ vol_ewma > vol_toxic_threshold_ppm
  \/ /\ 100 * Abs(imb.n) > imb_toxic_threshold_pct * imb.d
     /\ 100 * Abs(t_imb.n) > trade_imb_toxic_threshold_pct * t_imb.d

\* line 249
L3_hard_cap(inv) == Abs(inv) > inv_cap_base

\* lines 251-258: the cancel of the hard-cap branch
L3_hard_cap_cancel(b, account, inv) ==
  LET oo == L3_open_orders_by_side(account)
      cancel_ids == IF inv > 0 THEN OrderIds(oo.bids) ELSE OrderIds(oo.asks)
  IN  IF cancel_ids # <<>> THEN <<Cancel(b, cancel_ids)>> ELSE <<>>

\* lines 260-284: the forced de-risk order
L3_hard_cap_order(b, lv, inv) ==
  LET excess == Abs(inv) - inv_soft_cap_base
      \* clamp(excess * hard_flatten_frac, min_order_size, max_order_size), rounded
      qty == IF excess * hard_flatten_pct < min_order_size * 100 THEN min_order_size
             ELSE IF excess * hard_flatten_pct > max_order_size * 100 THEN max_order_size
             ELSE RoundHalfEven(excess * hard_flatten_pct, 100)
  IN  IF excess <= 0 THEN <<>>
      ELSE IF inv > 0
      THEN <<Limit(b, "SELL", qty, lv.bid, "IOC", FALSE, NoneVal)>>
      ELSE <<Limit(b, "BUY", qty, lv.ask, "IOC", FALSE, NoneVal)>>

\* line 317: the queue ahead of us at the touch is more than 70% of it
L3_crowded(qa, q0) ==
  ~IsNone(qa) /\ (IF q0 > 0 THEN 10 * Val(qa) > 7 * q0 ELSE Val(qa) > 0)

\* lines 315-318: step one tick inside the touch when joining a crowded best bid
L3_step_bid(bid0, step_inside, qa, lv, D) ==
  IF step_inside /\ bid0 <= lv.bid * D /\ L3_crowded(qa, lv.bidq)
  THEN (lv.bid + 1) * D ELSE bid0

\* lines 319-322: the same at the best ask
L3_step_ask(ask0, step_inside, qa, lv, D) ==
  IF step_inside /\ ask0 >= lv.ask * D /\ L3_crowded(qa, lv.askq)
  THEN (lv.ask - 1) * D ELSE ask0

\* lines 334-343: qty = clamp(size_frac_top * top_liq, min, max) * shrink, rounded
L3_qty(lv, inv) ==
  LET top2 == lv.bidq + lv.askq
      q == IF size_frac_top_permille * top2 < min_order_size * 2000
           THEN [n |-> min_order_size, d |-> 1]
           ELSE IF size_frac_top_permille * top2 > max_order_size * 2000
           THEN [n |-> max_order_size, d |-> 1]
           ELSE [n |-> size_frac_top_permille * top2, d |-> 2000]
      raw == 10 * inv_soft_cap_base - 7 * Abs(inv)
      shrink == IF 2 * Abs(inv) > inv_soft_cap_base
                THEN (IF 5 * raw < 10 * inv_soft_cap_base
                      THEN [n |-> 1, d |-> 5]
                      ELSE [n |-> raw, d |-> 10 * inv_soft_cap_base])
                ELSE [n |-> 1, d |-> 1]
  IN  RoundHalfEven(q.n * shrink.n, q.d * shrink.d)

\* lines 290-353: the quote prices, the sides quoted and the quantity
L3_quotes(book, account, lv, imb, t_imb, inv, toxic) ==
  LET spread == lv.ask - lv.bid
      \* micro = mid + 0.25*imb*spread + 0.15*t_imb*spread, over denominator D
      D == 200 * imb.d * t_imb.d
      micro == (lv.bid + lv.ask) * 100 * imb.d * t_imb.d
                 + spread * (50 * imb.n * t_imb.d + 30 * t_imb.n * imb.d)
      half_spread_ticks == L3_clamp(RoundHalfEven(spread, 2),
                                    min_half_spread_ticks, max_half_spread_ticks)
      skew_ticks == IF inv >= inv_soft_cap_base THEN max_skew_ticks
                    ELSE IF inv <= -inv_soft_cap_base THEN -max_skew_ticks
                    ELSE RoundHalfEven(inv * max_skew_ticks, inv_soft_cap_base)
      oo == L3_open_orders_by_side(account)
      step_inside == ~toxic /\ spread >= 3 /\ inside_tick_if_safe # 0
      bid_r == RoundHalfEven(
                 L3_step_bid(Min(micro - (half_spread_ticks + skew_ticks) * D, (lv.ask - 1) * D),
                             step_inside,
                             L3_queue_ahead(book, "BUY", lv.bid,
                               IF oo.bids = <<>> THEN NoneVal ELSE Some(oo.bids[1].id)),
                             lv, D), D)
      ask_r == RoundHalfEven(
                 L3_step_ask(Max(micro + (half_spread_ticks - skew_ticks) * D, (lv.bid + 1) * D),
                             step_inside,
                             L3_queue_ahead(book, "SELL", lv.ask,
                               IF oo.asks = <<>> THEN NoneVal ELSE Some(oo.asks[1].id)),
                             lv, D), D)
  IN  [bid_px |-> Min(bid_r, lv.ask - 1),
       ask_px |-> Max(ask_r, lv.bid + 1),
       quote_bid |-> ~(toxic /\ imb.n < 0),
       quote_ask |-> ~(toxic /\ imb.n > 0),
       qty |-> L3_qty(lv, inv)]

\* lines 356-371: the ids of the best order of each side that are cancelled
L3_stale_ids(account, qd, now) ==
  LET oo == L3_open_orders_by_side(account)
      max_age == IntTrunc(max_order_age_tenths * PublishInterval, 10)
      Stale(o, quoted, px) ==
        \/ ~quoted
        \/ now - o.timestamp > max_age
        \/ Abs(o.price - px) >= reprice_ticks
      bb == L3_max_price(oo.bids)
      ba == L3_min_price(oo.asks)
  IN  (IF oo.bids # <<>> /\ Stale(bb, qd.quote_bid, qd.bid_px) THEN <<bb.id>> ELSE <<>>)
      \o (IF oo.asks # <<>> /\ Stale(ba, qd.quote_ask, qd.ask_px) THEN <<ba.id>> ELSE <<>>)

\* lines 379-380: whether a new order is placed on a side
L3_place_bid(account, qd, cancel_ids) ==
  LET oo == L3_open_orders_by_side(account)
  IN  /\ qd.quote_bid /\ qd.qty >= min_order_size
      /\ (oo.bids = <<>> \/ L3_max_price(oo.bids).id \in SeqToSet(cancel_ids))

L3_place_ask(account, qd, cancel_ids) ==
  LET oo == L3_open_orders_by_side(account)
  IN  /\ qd.quote_ask /\ qd.qty >= min_order_size
      /\ (oo.asks = <<>> \/ L3_min_price(oo.asks).id \in SeqToSet(cancel_ids))

\* lines 410-413
L3_loss(account, bs, mid2) ==
  /\ ~IsNone(bs.wealth0)
  /\ 100 * (L3_wealth2(account, mid2) - Val(bs.wealth0)) < -(dd_stop_pct * Val(bs.wealth0))

\* lines 356-416 for one book: cancel what is stale, place, then the loss
\* cooldown.  An injected exception in limit_order ends the body there; the
\* cancel appended before it stays.
L3_place(b, account, bs1, now, cid, mid2, qd, cancel_ids) ==
  LET cancels == IF cancel_ids # <<>> THEN <<Cancel(b, cancel_ids)>> ELSE <<>>
      expiry == IntTrunc(l3_expiry_tenths * PublishInterval, 10)
      pb == L3_place_bid(account, qd, cancel_ids)
      pa == L3_place_ask(account, qd, cancel_ids)
      loss == L3_loss(account, bs1, mid2)
  IN
  IF FaultAt(b, "limit_order") /\ (pb \/ pa)
  THEN [bs |-> bs1, out |-> cancels, cid |-> cid + 1, raised |-> TRUE]
  ELSE
    [raised |-> FALSE,
     bs |-> IF loss
            THEN [bs1 EXCEPT !.loss_cooldown_until =
                    now + IntTrunc(loss_cooldown_tenths * PublishInterval, 10)]
            ELSE bs1,
     cid |-> cid + (IF pb THEN 1 ELSE 0) + (IF pa THEN 1 ELSE 0),
     out |-> cancels
             \o (IF pb THEN <<Limit(b, "BUY", qd.qty, qd.bid_px, "GTT", TRUE, Some(expiry))>>
                 ELSE <<>>)
             \o (IF pa THEN <<Limit(b, "SELL", qd.qty, qd.ask_px, "GTT", TRUE, Some(expiry))>>
                 ELSE <<>>)
             \o (IF loss /\ account.orders # <<>>
                 THEN <<Cancel(b, OrderIds(account.orders))>> ELSE <<>>)]

\* lines 245-416 for one book: the hard inventory cap, else the quotes
L3_decide(b, book, account, lv, bs1, now, cid, imb, t_imb, toxic, inv) ==
  IF L3_hard_cap(inv)
  THEN
    LET raises == FaultAt(b, "limit_order") /\ L3_hard_cap_order(b, lv, inv) # <<>>
    IN  [bs |-> bs1, cid |-> cid, raised |-> raises,
         out |-> L3_hard_cap_cancel(b, account, inv)
                 \o (IF raises THEN <<>> ELSE L3_hard_cap_order(b, lv, inv))]
  ELSE
    LET qd == L3_quotes(book, account, lv, imb, t_imb, inv, toxic)
    IN  L3_place(b, account, bs1, now, cid, lv.bid + lv.ask, qd,
                 L3_stale_ids(account, qd, now))

\* lines 227-416 for one book whose levels are valid: the signals and the
\* toxicity cooldown (lines 227-242), then the rest of the body
L3_signals(b, book, account, lv, bs, now, cid) ==
  LET vol == L3_vol_update(bs, lv.bid + lv.ask)
      imb == L3_depth_imbalance(book, Max(1, depth_levels))
      t_imb == L3_trade_imbalance(book)
  IN  L3_decide(b, book, account, lv,
                [bs EXCEPT !.vol_ewma = vol,
                           !.mid_last = Some(lv.bid + lv.ask),
                           !.cooldown_until =
                              IF L3_toxic(vol, imb, t_imb)
                              THEN now + IntTrunc(cooldown_tenths * PublishInterval, 10)
                              ELSE @],
                now, cid, imb, t_imb, L3_toxic(vol, imb, t_imb),
                account.own_base - (IF IsNone(bs.base_target) THEN 0 ELSE Val(bs.base_target)))

\* A second pass whose risk-off branch restarts the toxicity cooldown
L3_book_restarting(b, book, accts, bs, now, cid) ==
  LET skip == [bs |-> bs, out |-> <<>>, cid |-> cid, raised |-> FALSE]
  IN
  IF FaultAt(b, "enter") THEN [skip EXCEPT !.raised = TRUE]
  ELSE IF b \notin DOMAIN accts THEN skip
  ELSE IF now < bs.cooldown_until \/ now < bs.loss_cooldown_until
  THEN [skip EXCEPT !.bs = [bs EXCEPT !.cooldown_until =
                                now + IntTrunc(cooldown_tenths * PublishInterval, 10)],
                    !.out = IF accts[b].orders # <<>>
                            THEN <<Cancel(b, OrderIds(accts[b].orders))>> ELSE <<>>]
  ELSE IF ~L3_best_levels(book).ok THEN skip
  ELSE IF L3_best_levels(book).ask - L3_best_levels(book).bid <= 0 THEN skip
  ELSE L3_signals(b, book, accts[b], L3_best_levels(book), bs, now, cid)

\* The body of the try block of the second pass (lines 207-416) for book b.
\* Result: the book's state, the instructions appended and _client_id.  An
\* injected exception ends the body where it is raised; what was stored and
\* appended before it stays (the except clause of line 418 only logs).
L3_book(b, book, accts, bs, now, cid) ==
  LET skip == [bs |-> bs, out |-> <<>>, cid |-> cid, raised |-> FALSE]
  IN
  IF FaultAt(b, "enter") THEN [skip EXCEPT !.raised = TRUE]
  ELSE IF b \notin DOMAIN accts THEN skip
  ELSE IF now < bs.cooldown_until \/ now < bs.loss_cooldown_until
  THEN [skip EXCEPT !.out = IF accts[b].orders # <<>>
                             THEN <<Cancel(b, OrderIds(accts[b].orders))>> ELSE <<>>]
  ELSE IF ~L3_best_levels(book).ok THEN skip
  ELSE IF L3_best_levels(book).ask - L3_best_levels(book).bid <= 0 THEN skip
  ELSE L3_signals(b, book, accts[b], L3_best_levels(book), bs, now, cid)

\* lines 206-421: what one book's try block leaves behind
L3_after_book(acc, b, r) ==
  [acc EXCEPT !.store = [@ EXCEPT ![b] = r.bs],
              !.out = @ \o r.out,
              !.cid = r.cid,
              !.logged = IF r.raised THEN @ \cup {b} ELSE @]

\* Second pass (lines 205-421) over the books `ids`, in order.
RECURSIVE L3_second_pass(_, _, _, _, _)
L3_second_pass(ids, books, accts, acc, now) ==
  IF ids = <<>> THEN acc
  ELSE L3_second_pass(Tail(ids), books, accts,
         L3_after_book(acc, Head(ids),
           L3_book(Head(ids), books[Head(ids)], accts, acc.store[Head(ids)], now, acc.cid)),
         now)

\* lines 197-423: the kill-switch, else the second pass
L3_after_first_pass(st, accts, cid, fp) ==
  IF fp.raised
  THEN [store |-> fp.store, out |-> <<>>, cid |-> cid, logged |-> {},
        raised |-> TRUE, killed |-> FALSE]
  ELSE IF L3_kill_switch(fp.total_pnl, fp.total_w0)
  THEN [store |-> fp.store, out |-> L3_cancel_all(SortedIds(DOMAIN accts), accts),
        cid |-> cid, logged |-> {}, raised |-> FALSE, killed |-> TRUE]
  ELSE L3_second_pass(SortedIds(DOMAIN st.books), st.books, accts,
         [store |-> fp.store, out |-> <<>>, cid |-> cid, logged |-> {},
          raised |-> FALSE, killed |-> FALSE],
         st.timestamp)

\* respond(state): the instructions returned, the store and _client_id after
\* it, the books whose exception was logged, whether it raised instead of
\* returning, and whether the kill-switch fired.
L3_respond(st, accts, store, cid) ==
  L3_after_first_pass(st, accts, cid,
    L3_first_pass(SortedIds(DOMAIN st.books), st.books, accts,
                  [store |-> store, total_pnl |-> 0, total_w0 |-> 0, raised |-> FALSE]))

----------------------------------------------------------------------------
(* EliteImbalanceMarketMaker *)
(* Quantities of this agent are counted in 1/QtyUnits of a base unit       *)
(* and a price of one quote unit is PriceUnits ticks.  An account is       *)
(* [base_total, base_free, quote_total, quote_free, fees, orders], fees an *)
(* optional maker fee rate in 1/10000.                                     *)

QtyUnits == 100        \* volumeDecimals = 2
PriceUnits == 100      \* priceDecimals = 2

elite_min_qty == 5                 \* 0.05
elite_max_qty == 100               \* 1.00
elite_target_notional == 250
elite_quote_levels == 10
elite_imb_skew_pct == 60           \* 0.60
elite_flow_skew_pct == 35          \* 0.35
elite_min_halfspread_ticks == 2
elite_cancel_tolerance_ticks == 2
elite_max_maker_fee_e4 == 15       \* 0.0015
elite_inv_target_pct == 0
elite_inv_limit_pct == 20          \* 0.20
elite_inv_skew_pct == 100          \* 1.00
elite_emergency_unwind_pct == 35   \* 0.35
elite_toxic_move_e3 == 6           \* 0.006
elite_toxic_flow_pct == 55         \* 0.55
elite_retreat_ticks == 3

\* _clip
RClip(x, lo, hi) == IF RLt(x, lo) THEN lo ELSE IF RLt(hi, x) THEN hi ELSE x

\* _compute_mid_spread, for a book with both sides
Elite_compute_mid_spread(book) ==
  [best_bid |-> book.bids[1].price,
   best_ask |-> book.asks[1].price,
   mid2 |-> book.bids[1].price + book.asks[1].price,
   spread |-> Max(book.asks[1].price - book.bids[1].price, 0)]

\* _l2_imbalance: snapshot.imbalance(depth) is (bid volume - ask volume) over
\* their sum on the first `depth` levels; 0 when the sum is 0
Elite_l2_imbalance(book) ==
  LET bv == SumQuantity(Take(book.bids, elite_quote_levels))
      av == SumQuantity(Take(book.asks, elite_quote_levels))
  IN  IF bv + av = 0 THEN RInt(0) ELSE R(bv - av, bv + av)

\* interval_ret of _interval_flow_signal; last_mid2 = 0 when there is none
Elite_interval_ret(mid2, last_mid2) ==
  IF last_mid2 <= 0 THEN RInt(0) ELSE R(mid2 - last_mid2, last_mid2)

\* interval_ret / toxic_move_threshold, clipped to [-1, 1]
Elite_ret_signal(ret) ==
  RClip(RMul(ret, R(1000, elite_toxic_move_e3)), RInt(-1), RInt(1))

Elite_toxic_by_move(ret) == RLt(R(elite_toxic_move_e3, 1000), RAbs(ret))

Elite_trades(book) == SelectSeq(book.events, LAMBDA e : e.type = "t")

\* flow = (buy_qty - sell_qty) / tot_qty over the trades of the interval
Elite_flow(trades) ==
  R(SumQuantity(SelectSeq(trades, LAMBDA t : t.side = 0))
      - SumQuantity(SelectSeq(trades, LAMBDA t : t.side # 0)),
    SumQuantity(trades))

\* lines 160-166, given flow and the interval return
Elite_flow_and_move(flow, ret) ==
  [flow_signal |->
     RClip(RAdd(RMul(R(1, 2), flow), RMul(R(1, 2), Elite_ret_signal(ret))),
           RInt(-1), RInt(1)),
   toxic |-> /\ Elite_toxic_by_move(ret)
             /\ RLt(R(elite_toxic_flow_pct, 100), RAbs(flow))
             /\ (ret.n >= 0) = (flow.n >= 0)]

\* _interval_flow_signal
Elite_interval_flow_signal(book, ret) ==
  IF book.events = <<>> THEN [flow_signal |-> RInt(0), toxic |-> FALSE]
  ELSE IF Elite_trades(book) = <<>>
  THEN [flow_signal |-> Elite_ret_signal(ret), toxic |-> Elite_toxic_by_move(ret)]
  ELSE Elite_flow_and_move(Elite_flow(Elite_trades(book)), ret)

\* _target_order_qty
Elite_target_order_qty(mid2) ==
  IF mid2 <= 0 THEN elite_min_qty
  ELSE RRound(RClip(R(elite_target_notional * 2 * PriceUnits * QtyUnits, mid2),
                    RInt(elite_min_qty), RInt(elite_max_qty)))

\* _inventory_frac
Elite_inventory_frac(account, mid2) ==
  IF 2 * account.quote_total + account.base_total * mid2 <= 0 \/ mid2 <= 0 THEN RInt(0)
  ELSE R(account.base_total * mid2, 2 * account.quote_total + account.base_total * mid2)

\* lines 223-228
Elite_shift_units(imb, flow_signal, inv_dev) ==
  RClip(RSub(RAdd(RMul(R(elite_imb_skew_pct, 100), imb),
                  RMul(R(elite_flow_skew_pct, 100), flow_signal)),
             RMul(R(elite_inv_skew_pct, 100),
                  RClip(RMul(inv_dev, R(100, elite_inv_limit_pct)), RInt(-1), RInt(1)))),
        R(-3, 2), R(3, 2))

\* lines 232-233: halfspread = max(min_hs, 0.5 * spread), in ticks
Elite_halfspread(ms) == RMax(RInt(elite_min_halfspread_ticks), R(ms.spread, 2))

\* lines 236-255: the desired quotes from the reservation price, rounded
Elite_quote_around(reservation, halfspread, ms, toxic, flow_signal) ==
  [bid |-> RRound(RSub(RMin(RSub(reservation, halfspread), RInt(ms.best_ask - 1)),
                       RInt(IF toxic /\ flow_signal.n < 0 THEN elite_retreat_ticks ELSE 0))),
   ask |-> RRound(RAdd(RMax(RAdd(reservation, halfspread), RInt(ms.best_bid + 1)),
                       RInt(IF toxic /\ flow_signal.n > 0 THEN elite_retreat_ticks ELSE 0))),
   skip |-> FALSE]

\* lines 258-266: a book too tight for two quotes gets the side that reduces
\* the inventory, or none; price 0 stands for no quote on the side
Elite_one_side(d, ms, inv_dev) ==
  IF d.bid < d.ask THEN d
  ELSE IF inv_dev.n > 0
  THEN [bid |-> 0, ask |-> Max(ms.best_ask, ms.best_bid + 1), skip |-> FALSE]
  ELSE IF inv_dev.n < 0
  THEN [bid |-> Min(ms.best_bid, ms.best_ask - 1), ask |-> 0, skip |-> FALSE]
  ELSE [d EXCEPT !.skip = TRUE]

\* lines 213-266
Elite_desired(ms, imb, fs, inv_dev) ==
  Elite_one_side(
    Elite_quote_around(
      RAdd(R(ms.mid2, 2),
           RMul(Elite_shift_units(imb, fs.flow_signal, inv_dev), Elite_halfspread(ms))),
      Elite_halfspread(ms), ms, fs.toxic, fs.flow_signal),
    ms, inv_dev)

\* lines 271-272
Elite_size_scale(inv_dev) ==
  RClip(RSub(RInt(1),
             RMul(R(1, 2),
                  RMax(RSub(RClip(RMul(RAbs(inv_dev), R(100, elite_inv_limit_pct)),
                                  RInt(0), RInt(2)),
                            R(7, 10)),
                       RInt(0)))),
        R(1, 4), RInt(1))

\* lines 269-275
Elite_sizes(mid2, inv_dev) ==
  [bid_qty |-> RRound(RMul(RInt(Elite_target_order_qty(mid2)),
                           IF inv_dev.n < 0 THEN Elite_size_scale(inv_dev) ELSE RInt(1))),
   ask_qty |-> RRound(RMul(RInt(Elite_target_order_qty(mid2)),
                           IF inv_dev.n > 0 THEN Elite_size_scale(inv_dev) ELSE RInt(1)))]

Elite_beyond_limit(inv_dev) == RLt(R(elite_inv_limit_pct, 100), RAbs(inv_dev))

\* lines 292-301: is the open order o out of policy
Elite_out_of_policy(o, d) ==
  IF o.side = "BUY" /\ d.bid > 0 THEN Abs(o.price - d.bid) > elite_cancel_tolerance_ticks
  ELSE IF o.side = "SELL" /\ d.ask > 0 THEN Abs(o.price - d.ask) > elite_cancel_tolerance_ticks
  ELSE TRUE

\* lines 283-310: the set of ids to cancel
Elite_cancel_ids(account, d, fees_too_high, inv_dev) ==
  IF fees_too_high THEN {o.id : o \in SeqToSet(account.orders)}
  ELSE {o.id : o \in {x \in SeqToSet(account.orders) : Elite_out_of_policy(x, d)}}
       \cup (IF ~Elite_beyond_limit(inv_dev) THEN {}
             ELSE {o.id : o \in {x \in SeqToSet(account.orders) :
                                   x.side = (IF inv_dev.n > 0 THEN "BUY" ELSE "SELL")}})

\* lines 304-310: beyond the hard limit the risky side is not quoted
Elite_drop_risky_side(d, fees_too_high, inv_dev) ==
  IF fees_too_high \/ ~Elite_beyond_limit(inv_dev) THEN d
  ELSE IF inv_dev.n > 0 THEN [d EXCEPT !.bid = 0]
  ELSE [d EXCEPT !.ask = 0]

\* lines 312-314
Elite_cancel(b, ids) == IF ids = {} THEN <<>> ELSE <<Cancel(b, SortedIds(ids))>>

\* lines 333-334: round(min(unwind_qty, quote free / max(best_ask, tick)))
Elite_affordable(unwind_qty, account, ms) ==
  RRound(RMin(RInt(unwind_qty), R(account.quote_free, Max(ms.best_ask, 1))))

\* lines 319-343: the emergency unwind
Elite_unwind_order(b, account, ms, inv_dev, unwind_qty) ==
  IF unwind_qty <= 0 THEN <<>>
  ELSE IF inv_dev.n > 0
  THEN (IF account.base_free >= unwind_qty THEN <<Market(b, "SELL", unwind_qty)>> ELSE <<>>)
  ELSE IF inv_dev.n < 0 /\ Elite_affordable(unwind_qty, account, ms) > 0
  THEN <<Market(b, "BUY", Elite_affordable(unwind_qty, account, ms))>>
  ELSE <<>>

Elite_unwind(b, account, ms, inv_dev) ==
  IF Elite_beyond_limit(inv_dev) /\ elite_emergency_unwind_pct > 0
  THEN Elite_unwind_order(b, account, ms, inv_dev,
         RoundHalfEven(Abs(account.base_total) * elite_emergency_unwind_pct, 100))
  ELSE <<>>

\* lines 346-373: the new quotes
Elite_limits(b, account, d, sz, fees_too_high, expiry) ==
  IF fees_too_high THEN <<>>
  ELSE (IF d.bid > 0 /\ sz.bid_qty > 0 /\ account.quote_free >= sz.bid_qty * d.bid
        THEN <<Limit(b, "BUY", sz.bid_qty, d.bid, "GTT", FALSE, Some(expiry))>> ELSE <<>>)
       \o
       (IF d.ask > 0 /\ sz.ask_qty > 0 /\ account.base_free >= sz.ask_qty
        THEN <<Limit(b, "SELL", sz.ask_qty, d.ask, "GTT", FALSE, Some(expiry))>> ELSE <<>>)

\* lines 209-210
Elite_fees_too_high(account) ==
  ~IsNone(account.fees) /\ Val(account.fees) > elite_max_maker_fee_e4

\* lines 278-376, given the desired quotes
Elite_manage(b, account, ms, d, inv_dev, fees_too_high) ==
  IF d.skip THEN [out |-> <<>>, set_mid |-> FALSE, raised |-> FALSE]
  ELSE [out |-> Elite_cancel(b, Elite_cancel_ids(account, d, fees_too_high, inv_dev))
                \o Elite_unwind(b, account, ms, inv_dev)
                \o Elite_limits(b, account, Elite_drop_risky_side(d, fees_too_high, inv_dev),
                                Elite_sizes(ms.mid2, inv_dev), fees_too_high,
                                IntTrunc(9 * PublishInterval, 10)),
        set_mid |-> TRUE, raised |-> FALSE]

\* lines 213-376, for a book with both sides and an account
Elite_quote(b, book, account, ms, last_mid2, inv_dev) ==
  Elite_manage(b, account, ms,
    Elite_desired(ms, Elite_l2_imbalance(book),
                  Elite_interval_flow_signal(book, Elite_interval_ret(ms.mid2, last_mid2)),
                  inv_dev),
    inv_dev, Elite_fees_too_high(account))

\* The body of the try block (lines 199-376) for book b: the instructions
\* appended, whether _last_mid is set, whether an exception was caught.
Elite_book(b, book, accts, last_mid2) ==
  IF book.bids = <<>> \/ book.asks = <<>>
  THEN [out |-> <<>>, set_mid |-> FALSE, raised |-> FALSE]
  ELSE IF b \notin DOMAIN accts
  THEN [out |-> <<>>, set_mid |-> FALSE, raised |-> TRUE]
  ELSE IF book.bids[1].price + book.asks[1].price <= 0
  THEN [out |-> <<>>, set_mid |-> FALSE, raised |-> FALSE]
  ELSE Elite_quote(b, book, accts[b], Elite_compute_mid_spread(book), last_mid2,
         RSub(Elite_inventory_frac(accts[b], book.bids[1].price + book.asks[1].price),
              R(elite_inv_target_pct, 100)))

Elite_after_book(acc, b, mid2, r) ==
  [out |-> acc.out \o r.out,
   mids |-> IF r.set_mid
            THEN (b :> mid2) @@ acc.mids
            ELSE acc.mids,
   logged |-> IF r.raised THEN acc.logged \cup {b} ELSE acc.logged]

\* the loop of respond (lines 197-381) over the books `ids`, in order; acc
\* holds the response, _last_mid[validator] and the books that logged
RECURSIVE Elite_books(_, _, _, _)
Elite_books(ids, books, accts, acc) ==
  IF ids = <<>> THEN acc
  ELSE Elite_books(Tail(ids), books, accts,
         Elite_after_book(acc, Head(ids),
           IF books[Head(ids)].bids = <<>> \/ books[Head(ids)].asks = <<>> THEN 0
           ELSE books[Head(ids)].bids[1].price + books[Head(ids)].asks[1].price,
           Elite_book(Head(ids), books[Head(ids)], accts,
                      IF Head(ids) \in DOMAIN acc.mids THEN acc.mids[Head(ids)] ELSE 0)))

\* respond(state) (lines 188-383)
Elite_respond(st, accts, last_mid) ==
  Elite_books(SortedIds(DOMAIN st.books), st.books, accts,
    [out |-> <<>>, logged |-> {},
     mids |-> IF st.validator \in DOMAIN last_mid THEN last_mid[st.validator] ELSE EmptyMap])

----------------------------------------------------------------------------
(* DominantImbalanceMM *)
(* Quantities are counted in 1/QtyUnits of a base unit.  Time is counted   *)
(* in units of 10 s.  A log-return is kept in units of 10^-5, computed as  *)
(* 2(x-1)/(x+1) for log(x) and truncated; a variance in units of 10^-10;   *)
(* a square root is the integer square root.  An account is [base_total,   *)
(* base_loan, base_collateral, fees, orders].                              *)

MinerWealth == 100     \* state.config.miner_wealth, in quote units
MaxOpenOrders == 3     \* state.config.max_open_orders

dom_imbalance_depth == 10
dom_vol_ewma_alpha_pct == 5          \* 0.05
dom_min_halfspread_ticks == 1
dom_vol_spread_coef == 2             \* 2.0
dom_imbalance_coef_pct == 35         \* 0.35
dom_flow_coef_pct == 25              \* 0.25
dom_inventory_coef_pct == 75         \* 0.75
dom_pos_limit_pct == 12              \* 0.12
dom_inv_one_sided_pct == 65          \* 0.65
dom_max_maker_fee_e4 == 40           \* 0.004
dom_min_qty == 5                     \* 0.05
dom_max_qty == 200                   \* 2.0
dom_qty_frac_of_max_pos_pct == 6     \* 0.06
dom_toxic_qty_scale_pct == 70        \* 0.7
dom_expiry_frac_pct == 85            \* 0.85
dom_expiry_min == 0                  \* 50 ms, truncated
dom_informed_flow_threshold_e6 == 1  \* 1e-6
dom_toxic_spread_add_ticks == 2
dom_no_fill_timeout == 12            \* 120 s
dom_nudge_qty_pct == 35              \* 0.35

\* a / b for b > 0
RDiv(a, b) == RMul(a, [n |-> b.d, d |-> b.n])

\* largest k in lo..hi with k * k <= v
RECURSIVE ISqrtIn(_, _, _)
ISqrtIn(v, lo, hi) ==
  IF lo >= hi THEN lo
  ELSE IF ((lo + hi + 1) \div 2) * ((lo + hi + 1) \div 2) <= v
  THEN ISqrtIn(v, (lo + hi + 1) \div 2, hi)
  ELSE ISqrtIn(v, lo, ((lo + hi + 1) \div 2) - 1)

ISqrt(v) == ISqrtIn(v, 0, 40000)

\* math.log(mid / prev), in units of 10^-5
Dom_log_return(mid2, prev2) == IntTrunc(200000 * (mid2 - prev2), mid2 + prev2)

\* _book_imbalance
Dom_book_imbalance(book) ==
  LET bid_qty == SumQuantity(Take(book.bids, dom_imbalance_depth))
      ask_qty == SumQuantity(Take(book.asks, dom_imbalance_depth))
  IN  IF bid_qty + ask_qty <= 0 THEN RInt(0) ELSE R(bid_qty - ask_qty, bid_qty + ask_qty)

\* _trade_flow
Dom_trade_flow(book) ==
  LET trades == SelectSeq(book.events, LAMBDA e : e.type = "t")
      buys == SumQuantity(SelectSeq(trades, LAMBDA t : t.side = 0))
  IN  IF SumQuantity(trades) <= 0 THEN RInt(0)
      ELSE R(2 * buys - SumQuantity(trades), SumQuantity(trades))

\* a microprice that is 0 when the top of the book holds no quantity
Dom_microprice_no_mid(best_bid, best_ask, bid_qty, ask_qty) ==
  IF bid_qty + ask_qty <= 0 THEN RInt(0)
  ELSE R(best_ask * bid_qty + best_bid * ask_qty, bid_qty + ask_qty)

\* _microprice, in ticks
Dom_microprice(best_bid, best_ask, bid_qty, ask_qty) ==
  IF bid_qty + ask_qty <= 0 THEN R(best_bid + best_ask, 2)
  ELSE R(best_ask * bid_qty + best_bid * ask_qty, bid_qty + ask_qty)

\* an _update_vol that never takes a return in
Dom_update_vol_frozen(prev_mid, prev_var, mid2) == prev_var

\* _update_vol: the new _ewma_var entry; prev_mid is optional
Dom_update_vol(prev_mid, prev_var, mid2) ==
  IF ~IsNone(prev_mid) /\ Val(prev_mid) > 0 /\ mid2 > 0
  THEN ((100 - dom_vol_ewma_alpha_pct) * prev_var
          + dom_vol_ewma_alpha_pct * Dom_log_return(mid2, Val(prev_mid))
                                   * Dom_log_return(mid2, Val(prev_mid))) \div 100
  ELSE prev_var

\* lines 189-190, in quantity units
Dom_max_base_pos(mid2) ==
  RMax(R(dom_pos_limit_pct * MinerWealth * 2 * PriceUnits * QtyUnits, 100 * Max(mid2, 2)),
       RInt(dom_min_qty))

\* lines 192-193
Dom_inv_ratio(account, mid2) ==
  RClip(RDiv(RInt(account.base_total - account.base_loan + account.base_collateral),
             Dom_max_base_pos(mid2)),
        RInt(-2), RInt(2))

\* lines 201-203 and the comparison with informed_flow_threshold
Dom_informed(flow, prev_mid, mid2) ==
  /\ ~IsNone(prev_mid) /\ Val(prev_mid) > 0
  /\ flow.n * Dom_log_return(mid2, Val(prev_mid)) * 10
       > flow.d * dom_informed_flow_threshold_e6

\* lines 220-224
Dom_needs_nudge(now, last_fill) ==
  IF last_fill > 0 THEN now - last_fill > dom_no_fill_timeout
  ELSE now > dom_no_fill_timeout

\* lines 210-211
Dom_reservation(micro, imb, flow, inv_ratio, spread) ==
  RAdd(micro,
       RMul(RSub(RAdd(RMul(R(dom_imbalance_coef_pct, 100), imb),
                      RMul(R(dom_flow_coef_pct, 100), flow)),
                 RMul(R(dom_inventory_coef_pct, 100), inv_ratio)),
            RInt(spread)))

Dom_one_sided_inventory(inv_ratio) ==
  ~RLt(RAbs(inv_ratio), R(dom_inv_one_sided_pct, 100))

\* lines 214-228, in ticks
Dom_half(spread, sigma, mid2, informed, needs_nudge, inv_ratio) ==
  IF needs_nudge /\ ~informed /\ ~Dom_one_sided_inventory(inv_ratio)
  THEN RMax(RInt(dom_min_halfspread_ticks), R(spread, 2))
  ELSE RAdd(RAdd(RMax(RInt(dom_min_halfspread_ticks), R(spread, 2)),
                 R(dom_vol_spread_coef * sigma * mid2, 200000)),
            RInt(IF informed THEN dom_toxic_spread_add_ticks ELSE 0))

\* lines 231-236, before rounding
Dom_qty_raw(mid2, informed) ==
  RMul(RClip(RMul(R(dom_qty_frac_of_max_pos_pct, 100), Dom_max_base_pos(mid2)),
             RInt(dom_min_qty), RInt(dom_max_qty)),
       IF informed THEN R(100 - dom_toxic_qty_scale_pct, 100) ELSE RInt(1))

\* lines 231-238
Dom_qty(mid2, informed, needs_nudge) ==
  RRound(IF needs_nudge
         THEN RMax(RInt(dom_min_qty),
                   RMul(Dom_qty_raw(mid2, informed), R(dom_nudge_qty_pct, 100)))
         ELSE Dom_qty_raw(mid2, informed))

\* lines 259-264: a crossed pair is widened once; skip when it stays crossed
Dom_widen(bid_px, ask_px, best_bid, best_ask) ==
  IF bid_px < ask_px THEN [bid_px |-> bid_px, ask_px |-> ask_px, skip |-> FALSE]
  ELSE [bid_px |-> Min(best_bid, ask_px - 1),
        ask_px |-> Max(best_ask, Min(best_bid, ask_px - 1) + 1),
        skip |-> Min(best_bid, ask_px - 1) >= Max(best_ask, Min(best_bid, ask_px - 1) + 1)]

\* lines 248-264
Dom_prices(r, half, best_bid, best_ask) ==
  Dom_widen(RRound(RMin(RSub(r, half), RInt(best_ask - 1))),
            RRound(RMax(RAdd(r, half), RInt(best_bid + 1))),
            best_bid, best_ask)

\* lines 267-335
Dom_orders(b, qty, px, one_sided, inv_ratio, flow, expiry) ==
  LET buy == Limit(b, "BUY", qty, px.bid_px, "GTT", FALSE, Some(expiry))
      sell == Limit(b, "SELL", qty, px.ask_px, "GTT", FALSE, Some(expiry))
  IN  IF ~one_sided THEN <<buy, sell>>
      ELSE IF inv_ratio.n > 0 THEN <<sell>>
      ELSE IF inv_ratio.n < 0 THEN <<buy>>
      ELSE IF flow.n >= 0 THEN <<buy>>
      ELSE <<sell>>

\* lines 162-165
Dom_expiry == Max(IntTrunc(dom_expiry_frac_pct * PublishInterval, 100), dom_expiry_min)

\* lines 248-335, given the prices
Dom_place(b, px, qty, informed, inv_ratio, flow) ==
  IF px.skip THEN <<>>
  ELSE Dom_orders(b, qty, px, Dom_one_sided_inventory(inv_ratio) \/ informed,
                  inv_ratio, flow, Dom_expiry)

\* lines 205-335, given the signals
Dom_quote(b, book, account, mid2, inv_ratio, flow, sigma, informed, needs_nudge) ==
  IF Dom_qty(mid2, informed, needs_nudge) <= 0 THEN <<>>
  ELSE IF MaxOpenOrders # 0 /\ Len(account.orders) >= MaxOpenOrders - 1
  THEN <<Cancel(b, OrderIds(account.orders))>>
  ELSE Dom_place(b,
         Dom_prices(
           Dom_reservation(
             Dom_microprice(book.bids[1].price, book.asks[1].price,
                            book.bids[1].quantity, book.asks[1].quantity),
             Dom_book_imbalance(book), flow, inv_ratio,
             book.asks[1].price - book.bids[1].price),
           Dom_half(book.asks[1].price - book.bids[1].price, sigma, mid2,
                    informed, needs_nudge, inv_ratio),
           book.bids[1].price, book.asks[1].price),
         Dom_qty(mid2, informed, needs_nudge), informed, inv_ratio, flow)

\* lines 182-335 for a book that is not skipped at once; new_var is the
\* _ewma_var entry that _update_vol has stored
Dom_signals(b, book, account, mid2, prev_mid, new_var, now, last_fill) ==
  [out |-> Dom_quote(b, book, account, mid2, Dom_inv_ratio(account, mid2),
                     Dom_trade_flow(book), ISqrt(Max(new_var, 0)),
                     Dom_informed(Dom_trade_flow(book), prev_mid, mid2),
                     Dom_needs_nudge(now, last_fill)),
   updated |-> TRUE, mid2 |-> mid2, var |-> new_var, raised |-> FALSE]

\* The body of the try block (lines 169-335) for book b
Dom_book(b, book, accts, prev_mid, prev_var, now, last_fill) ==
  LET skip == [out |-> <<>>, updated |-> FALSE, mid2 |-> 0, var |-> 0, raised |-> FALSE]
  IN  IF book.bids = <<>> \/ book.asks = <<>> THEN skip
      ELSE IF b \notin DOMAIN accts THEN [skip EXCEPT !.raised = TRUE]
      ELSE IF ~IsNone(accts[b].fees) /\ Val(accts[b].fees) > dom_max_maker_fee_e4 THEN skip
      ELSE IF book.asks[1].price <= book.bids[1].price THEN skip
      ELSE Dom_signals(b, book, accts[b], book.bids[1].price + book.asks[1].price,
                       prev_mid,
                       Dom_update_vol(prev_mid, prev_var,
                                      book.bids[1].price + book.asks[1].price),
                       now, last_fill)

Dom_after_book(acc, b, r) ==
  [out |-> acc.out \o r.out,
   last_mid |-> IF r.updated THEN (b :> r.mid2) @@ acc.last_mid ELSE acc.last_mid,
   ewma_var |-> IF r.updated THEN (b :> r.var) @@ acc.ewma_var ELSE acc.ewma_var,
   logged |-> IF r.raised THEN acc.logged \cup {b} ELSE acc.logged]

\* the loop of respond (lines 167-342) over the books `ids`, in order
RECURSIVE Dom_books(_, _, _, _, _, _)
Dom_books(ids, books, accts, acc, now, fills) ==
  IF ids = <<>> THEN acc
  ELSE Dom_books(Tail(ids), books, accts,
         Dom_after_book(acc, Head(ids),
           Dom_book(Head(ids), books[Head(ids)], accts,
                    IF Head(ids) \in DOMAIN acc.last_mid THEN Some(acc.last_mid[Head(ids)]) ELSE NoneVal,
                    Lookup(acc.ewma_var, Head(ids), 0),
                    now, Lookup(fills, Head(ids), 0))),
         now, fills)

\* respond(state) (lines 155-344)
Dom_respond(st, accts, last_mid, ewma_var, last_fill_ts) ==
  Dom_books(SortedIds(DOMAIN st.books), st.books, accts,
    [out |-> <<>>, logged |-> {},
     last_mid |-> Lookup(last_mid, st.validator, EmptyMap),
     ewma_var |-> Lookup(ewma_var, st.validator, EmptyMap)],
    st.timestamp, Lookup(last_fill_ts, st.validator, EmptyMap))

----------------------------------------------------------------------------
(* OrderBookImbalanceMarketMaker *)
(* Quantities are counted in 1/QtyUnits of a base unit, time in units of   *)
(* 10 s.  A microprice is an exact fraction of ticks.  A log-return and a  *)
(* volatility are kept in units of 10^-4: log(x) is computed as            *)
(* 2(x-1)/(x+1), exp(-x) by its (3,3) Pade approximant in thousandths, a   *)
(* square root as the integer square root.  An account is [base_total,     *)
(* base_loan, quote_total, quote_loan].                                    *)

obi_base_order_size == 50          \* 0.5
obi_max_inventory_pct == 30        \* 0.3
obi_target_spread_bps == 10
obi_min_edge_bps == 2
obi_expiry_period == 6             \* 60 s
obi_max_depth == 10                \* max of imbalance_depths "1,3,5,10"
obi_lookback_periods == 20
obi_inventory_skew_pct == 50       \* 0.5
obi_default_volatility == 10       \* 0.001
obi_min_volatility == 1            \* 0.0001

\* an imbalance that is not divided by the total
OBI_imbalance_raw(book, depth) ==
  RInt(SumQuantity(Take(book.bids, depth)) - SumQuantity(Take(book.asks, depth)))

\* calculate_order_book_imbalance
OBI_imbalance(book, depth) ==
  LET bid_volume == SumQuantity(Take(book.bids, depth))
      ask_volume == SumQuantity(Take(book.asks, depth))
  IN  IF bid_volume + ask_volume = 0 THEN RInt(0)
      ELSE R(bid_volume - ask_volume, bid_volume + ask_volume)

\* lines 384-392: the imbalances at depths 1, 3, 5, 10 weighted 1, 1.2, 1.5, 2
OBI_imbalance_signal(book) ==
  RAdd(RAdd(RMul(R(10, 57), OBI_imbalance(book, 1)),
            RMul(R(12, 57), OBI_imbalance(book, 3))),
       RAdd(RMul(R(15, 57), OBI_imbalance(book, 5)),
            RMul(R(20, 57), OBI_imbalance(book, 10))))

\* calculate_microprice, in ticks, for a book with both sides
OBI_microprice(book) ==
  IF book.bids[1].quantity + book.asks[1].quantity = 0
  THEN R(book.bids[1].price + book.asks[1].price, 2)
  ELSE R(book.bids[1].price * book.asks[1].quantity
           + book.asks[1].price * book.bids[1].quantity,
         book.bids[1].quantity + book.asks[1].quantity)

\* log(a / b) for fractions a, b > 0, in units of 10^-4
OBI_log_return(a, b) ==
  IntTrunc(20000 * RSub(a, b).n * RAdd(a, b).d, RAdd(a, b).n * RSub(a, b).d)

\* exp(-k/m) in thousandths, 0 <= k <= m
ExpNegMilli(k, m) ==
  (1000 * (120 * m * m * m - 60 * k * m * m + 12 * k * k * m - k * k * k))
    \div (120 * m * m * m + 60 * k * m * m + 12 * k * k * m + k * k * k)

\* weight of the i-th of n log-returns: exp(linspace(-1, 0, n))[i]
OBI_weight(i, n) == ExpNegMilli(n - i, n - 1)

RECURSIVE OBI_weight_sum(_, _)
OBI_weight_sum(i, n) ==
  IF i > n THEN 0 ELSE OBI_weight(i, n) + OBI_weight_sum(i + 1, n)

\* sum over the log-returns i..n of weight * return^2
RECURSIVE OBI_weighted_squares(_, _, _)
OBI_weighted_squares(prices, i, n) ==
  IF i > n THEN 0
  ELSE OBI_weight(i, n) * OBI_log_return(prices[i + 1], prices[i])
                        * OBI_log_return(prices[i + 1], prices[i])
       + OBI_weighted_squares(prices, i + 1, n)

\* what deque(maxlen) keeps after an append
OBI_append(history, price) ==
  IF Len(history) < obi_lookback_periods THEN Append(history, price)
  ELSE Append(Tail(history), price)

\* estimate_volatility, given the price history after the append
OBI_volatility(prices) ==
  IF Len(prices) < 3 THEN obi_default_volatility
  ELSE Max(ISqrt(OBI_weighted_squares(prices, 1, Len(prices) - 1)
                   \div OBI_weight_sum(1, Len(prices) - 1)),
           obi_min_volatility)

\* calculate_inventory_position: inventory_pct
OBI_inventory_pct(account, microprice, initial_capital) ==
  IF initial_capital > 0
  THEN RMul(RInt(account.base_total - account.base_loan),
            RMul(microprice, R(1, PriceUnits * QtyUnits * initial_capital)))
  ELSE RInt(0)

\* calculate_inventory_position: inventory_skew
OBI_inventory_skew(inventory_pct) ==
  RClip(RMul(inventory_pct, R(obi_inventory_skew_pct, obi_max_inventory_pct)),
        RInt(-1), RInt(1))

\* line 410
OBI_at_risk_limit(inventory_pct) ==
  ~RLt(RAbs(inventory_pct), R(obi_max_inventory_pct, 100))

\* lines 420-421: half of the spread, in ticks
OBI_half_spread(microprice, volatility) ==
  RMul(microprice, R(obi_target_spread_bps * (obi_default_volatility + volatility),
                     obi_default_volatility * 20000))

\* round(a + y) for fractions a and y with -3 < y < 3, computed without
\* forming a + y: n is the integer nearest to a, j the whole steps y adds
RRoundNear(a, y, n, j) ==
  IF y = RSub(R(2 * (n + j) - 1, 2), a)
  THEN (IF (n + j) % 2 = 0 THEN n + j ELSE n + j - 1)
  ELSE n + j

RRoundSum(a, y) ==
  RRoundNear(a, y, (2 * a.n + a.d) \div (2 * a.d),
    CHOOSE j \in -3..3 :
      /\ ~RLt(y, RSub(R(2 * (((2 * a.n + a.d) \div (2 * a.d)) + j) - 1, 2), a))
      /\ RLt(y, RSub(R(2 * (((2 * a.n + a.d) \div (2 * a.d)) + j) + 1, 2), a)))

\* calculate_optimal_quotes: a quote is microprice + half_spread * shift,
\* side = -1 for the bid and 1 for the ask
OBI_shift(side, imbalance_signal, inventory_skew) ==
  RAdd(RInt(side), RSub(RMul(imbalance_signal, R(3, 10)),
                        RMul(inventory_skew, R(1, 2))))

OBI_quote_price(side, microprice, half_spread, imbalance_signal, inventory_skew) ==
  RRoundSum(microprice,
            RMul(half_spread, OBI_shift(side, imbalance_signal, inventory_skew)))

\* a should_place_order that checks the size of the edge, not its side
OBI_should_place_order_any_side(quote_price, microprice, is_bid) ==
  /\ microprice.n # 0
  /\ ~RLt(RMul(RAbs(RSub(RInt(quote_price), microprice)), RInt(10000)),
          RMul(RInt(obi_min_edge_bps), microprice))

\* should_place_order
OBI_should_place_order(quote_price, microprice, is_bid) ==
  /\ microprice.n # 0
  /\ IF is_bid THEN RLt(RInt(quote_price), microprice)
     ELSE RLt(microprice, RInt(quote_price))
  /\ ~RLt(RMul(RAbs(RSub(RInt(quote_price), microprice)), RInt(10000)),
          RMul(RInt(obi_min_edge_bps), microprice))

\* lines 431-438, with the size multiplier of calculate_optimal_quotes
\* (lines 306-311): signed_half is +-0.5 * (imbalance_signal - inventory_skew)
OBI_size(signed_half) ==
  RRound(RMul(RInt(obi_base_order_size),
              RClip(RAdd(RInt(1), signed_half), R(1, 2), RInt(2))))

\* lines 420-466: the quotes of a book that passed the risk check
OBI_quotes(b, microprice, half_spread, imbalance_signal, inventory_pct, inventory_skew) ==
  LET bid_price == OBI_quote_price(-1, microprice, half_spread, imbalance_signal,
                                   inventory_skew)
      ask_price == OBI_quote_price(1, microprice, half_spread, imbalance_signal,
                                   inventory_skew)
      tilt == RMul(R(1, 2), RSub(imbalance_signal, inventory_skew))
  IN  (IF /\ RLt(inventory_pct, R(obi_max_inventory_pct * 8, 1000))
          /\ OBI_should_place_order(bid_price, microprice, TRUE)
       THEN <<Limit(b, "BUY", OBI_size(tilt), bid_price, "GTT", FALSE,
                    Some(obi_expiry_period))>>
       ELSE <<>>)
      \o
      (IF /\ RLt(R(-(obi_max_inventory_pct * 8), 1000), inventory_pct)
          /\ OBI_should_place_order(ask_price, microprice, FALSE)
       THEN <<Limit(b, "SELL", OBI_size(RNeg(tilt)), ask_price, "GTT", FALSE,
                    Some(obi_expiry_period))>>
       ELSE <<>>)

\* lines 400-466, given the microprice and the price history after the append
OBI_manage(b, book, microprice, prices, inventory_pct) ==
  IF OBI_at_risk_limit(inventory_pct) THEN <<>>
  ELSE OBI_quotes(b, microprice, OBI_half_spread(microprice, OBI_volatility(prices)),
                  OBI_imbalance_signal(book), inventory_pct,
                  OBI_inventory_skew(inventory_pct))

\* The body of the try block (lines 371-466) for book b: the instructions
\* appended and the price history of the book afterwards
OBI_book(b, book, accts, history, initial_capital) ==
  IF book.bids = <<>> \/ book.asks = <<>> \/ Len(book.bids) < obi_max_depth
     \/ b \notin DOMAIN accts
  THEN [out |-> <<>>, history |-> history]
  ELSE IF OBI_microprice(book).n = 0 THEN [out |-> <<>>, history |-> history]
  ELSE [out |-> OBI_manage(b, book, OBI_microprice(book),
                           OBI_append(history, OBI_microprice(book)),
                           OBI_inventory_pct(accts[b], OBI_microprice(book), initial_capital)),
        history |-> OBI_append(history, OBI_microprice(book))]

OBI_after_book(acc, b, r) ==
  [out |-> acc.out \o r.out,
   histories |-> IF r.history = <<>> THEN acc.histories
                 ELSE (b :> r.history) @@ acc.histories]

\* the loop of respond (lines 368-483) over the books `ids`, in order
RECURSIVE OBI_books(_, _, _, _, _)
OBI_books(ids, books, accts, acc, initial_capital) ==
  IF ids = <<>> THEN acc
  ELSE OBI_books(Tail(ids), books, accts,
         OBI_after_book(acc, Head(ids),
           OBI_book(Head(ids), books[Head(ids)], accts,
                    Lookup(acc.histories, Head(ids), <<>>), initial_capital)),
         initial_capital)

\* respond(state) (lines 344-491)
OBI_respond(st, accts, book_state, initial_capital) ==
  OBI_books(SortedIds(DOMAIN st.books), st.books, accts,
    [out |-> <<>>, histories |-> Lookup(book_state, st.validator, EmptyMap)],
    initial_capital)

----------------------------------------------------------------------------
(* SmartOrderBookAgent *)
(* Quantities are counted in 1/QtyUnits of a base unit, prices in ticks of *)
(* 0.01 (the agent rounds its prices to two decimals), time in units of    *)
(* 10 s.  A return and the volatility are kept in units of 10^-5,          *)
(* truncated; the standard deviation is the integer square root of the     *)
(* variance.  A trade event is [type, side, quantity, maker_agent_id,      *)
(* taker_agent_id], side 0 for BUY and 1 for SELL.                         *)

smart_quantity == 100                \* 1.0
smart_risk_aversion_pct == 10        \* gamma 0.1
smart_imbalance_sensitivity_pct == 5 \* kappa 0.05
smart_window_size == 20
smart_base_spread_bps == 10
smart_max_pos == 10000               \* 100.0
smart_expiry_period == 1             \* 10 s
smart_imbalance_depth == 5
smart_uid == 7                       \* self.uid

\* get_weighted_imbalance (lines 32-51)
Smart_get_weighted_imbalance(book, depth) ==
  LET total_bid_vol == SumQuantity(Take(book.bids, depth))
      total_ask_vol == SumQuantity(Take(book.asks, depth))
  IN  IF total_bid_vol + total_ask_vol = 0 THEN RInt(0)
      ELSE R(total_bid_vol - total_ask_vol, total_bid_vol + total_ask_vol)

\* deque(maxlen = window_size).append (lines 29, 65)
Smart_append(history, mid2) ==
  IF Len(history) >= smart_window_size THEN Tail(history) \o <<mid2>>
  ELSE history \o <<mid2>>

\* np.std(np.diff(prices) / prices[:-1]) (lines 68-70): s1 and s2 are the sums
\* of the returns and of their squares up to index i
RECURSIVE Smart_std(_, _, _, _)
Smart_std(prices, i, s1, s2) ==
  IF i >= Len(prices)
  THEN ISqrt((Len(prices) - 1) * s2 - s1 * s1) \div (Len(prices) - 1)
  ELSE Smart_std(prices, i + 1,
                 s1 + IntTrunc(100000 * (prices[i + 1] - prices[i]), prices[i]),
                 s2 + IntTrunc(100000 * (prices[i + 1] - prices[i]), prices[i])
                        * IntTrunc(100000 * (prices[i + 1] - prices[i]), prices[i]))

\* lines 66-70
Smart_volatility(history, volatility) ==
  IF Len(history) > 5 THEN Smart_std(history, 1, 0, 0) ELSE volatility

\* lines 110-117: reservation price shifted by the imbalance, in ticks
Smart_target_price(mid2, current_inv, volatility, imbalance) ==
  RAdd(RSub(R(mid2, 2),
            RMul(RMul(R(current_inv, QtyUnits), R(smart_risk_aversion_pct, 100)),
                 RMul(R(volatility, 100000), R(mid2, 2)))),
       RMul(RMul(imbalance, R(smart_imbalance_sensitivity_pct, 100)), R(mid2, 2)))

\* lines 121-122
Smart_half_spread(mid2, volatility) ==
  RAdd(RMul(R(mid2, 2), R(smart_base_spread_bps, 10000)),
       RMul(R(2 * volatility, 100000), R(mid2, 2)))

\* lines 124-137
Smart_bid_price(target_price, half_spread, best_ask, mid2) ==
  RRound(RMin(RSub(target_price, half_spread), RSub(RInt(best_ask), R(mid2, 20000))))

Smart_ask_price(target_price, half_spread, best_bid, mid2) ==
  RRound(RMax(RAdd(target_price, half_spread), RAdd(RInt(best_bid), R(mid2, 20000))))

\* lines 143-165
Smart_orders(b, current_inv, bid_price, ask_price) ==
  (IF current_inv < smart_max_pos
   THEN <<Limit(b, "BUY", smart_quantity, bid_price, "GTT", FALSE, Some(smart_expiry_period))>>
   ELSE <<>>)
  \o (IF current_inv > -smart_max_pos
      THEN <<Limit(b, "SELL", smart_quantity, ask_price, "GTT", FALSE, Some(smart_expiry_period))>>
      ELSE <<>>)

\* lines 102-165, from the updated volatility on
Smart_quote(b, book, mid2, current_inv, volatility) ==
  Smart_orders(b, current_inv,
    Smart_bid_price(
      Smart_target_price(mid2, current_inv, volatility,
                         Smart_get_weighted_imbalance(book, smart_imbalance_depth)),
      Smart_half_spread(mid2, volatility), book.asks[1].price, mid2),
    Smart_ask_price(
      Smart_target_price(mid2, current_inv, volatility,
                         Smart_get_weighted_imbalance(book, smart_imbalance_depth)),
      Smart_half_spread(mid2, volatility), book.bids[1].price, mid2))

\* one iteration of the loop over state.books (lines 56-165)
Smart_book(acc, b, book, inventory) ==
  IF book.bids = <<>> \/ book.asks = <<>> THEN acc
  ELSE [history |-> Smart_append(acc.history, book.bids[1].price + book.asks[1].price),
        volatility |->
          Smart_volatility(Smart_append(acc.history, book.bids[1].price + book.asks[1].price),
                           acc.volatility),
        out |-> acc.out \o
          Smart_quote(b, book, book.bids[1].price + book.asks[1].price,
                      Lookup(inventory, b, 0),
                      Smart_volatility(
                        Smart_append(acc.history, book.bids[1].price + book.asks[1].price),
                        acc.volatility))]

\* the loop over state.books, in the order the update lists them
RECURSIVE Smart_books(_, _, _, _)
Smart_books(order, books, inventory, acc) ==
  IF order = <<>> THEN acc
  ELSE Smart_books(Tail(order), books, inventory,
                   Smart_book(acc, Head(order), books[Head(order)], inventory))

\* lines 176-193: what one trade event adds to our inventory
Smart_change(event) ==
  IF event.maker_agent_id = smart_uid
  THEN (IF event.side = 1 THEN event.quantity ELSE -event.quantity)
  ELSE IF event.taker_agent_id = smart_uid
  THEN (IF event.side = 0 THEN event.quantity ELSE -event.quantity)
  ELSE 0

RECURSIVE Smart_changes(_, _)
Smart_changes(events, total) ==
  IF events = <<>> THEN total
  ELSE Smart_changes(Tail(events),
                     IF Head(events).type = "t" THEN total + Smart_change(Head(events))
                     ELSE total)

\* lines 171-196: a book gets an entry with its first event of a non-zero change
Smart_update_inventory(books, inventory) ==
  [b \in DOMAIN inventory \cup
          {c \in DOMAIN books :
             \E i \in 1..Len(books[c].events) :
               books[c].events[i].type = "t" /\ Smart_change(books[c].events[i]) # 0} |->
     IF b \in DOMAIN books
     THEN Lookup(inventory, b, 0) + Smart_changes(books[b].events, 0)
     ELSE inventory[b]]

\* respond (lines 53-198)
Smart_respond(st, order, history, volatility, inventory) ==
  [loop |-> Smart_books(order, st.books, inventory,
                        [history |-> history, volatility |-> volatility, out |-> <<>>]),
   inventory |-> Smart_update_inventory(st.books, inventory)]

----------------------------------------------------------------------------
(* SmartMarketMaker *)
(* Quantities are counted in 1/QtyUnits of a base unit, prices in ticks;   *)
(* a volatility is kept in units of 10^-5.  An account is [base_total,     *)
(* quote_total, orders].  The StateHistoryManager keeps, per validator and *)
(* book, the doubled mids of the snapshots it was given (0 for a snapshot  *)
(* with an empty side); its worker thread is the action SmmWorkerDone.     *)

smm_risk_aversion_halves == 1    \* risk_aversion = 0.5
smm_obi_factor_tenths == 3       \* obi_factor = 0.3
smm_base_spread_bps == 20
smm_vol_window == 20
smm_levels == 5
smm_level_spacing_bps == 5
smm_order_size_pct_hundredths == 1   \* order_size_pct = 0.01
smm_expiry_period == 1           \* 10 s
smm_fallback_equity == 1000

\* recent_prices (lines 72-85): the mids of the last vol_window snapshots
\* that have both sides, then the current mid
Smm_recent_prices(hist, mid2) ==
  SelectSeq(SubSeq(hist, Max(1, Len(hist) - smm_vol_window + 1), Len(hist)),
            LAMBDA m : m > 0) \o <<mid2>>

\* vol (lines 71, 87-91)
Smm_vol(prices) ==
  IF Len(prices) > 2 THEN Max(Smart_std(prices, 1, 0, 0), 1) ELSE 100

\* obi (lines 96-99)
Smm_obi(book) ==
  LET bid_vol == SumQuantity(Take(book.bids, 5))
      ask_vol == SumQuantity(Take(book.asks, 5))
  IN  IF bid_vol + ask_vol > 0 THEN R(bid_vol - ask_vol, bid_vol + ask_vol) ELSE RInt(0)

\* equity, doubled, in (quantity unit x tick) (lines 102-107)
Smm_equity2(account, mid2) ==
  IF 2 * account.quote_total + account.base_total * mid2 <= 0
  THEN 2 * smm_fallback_equity * QtyUnits * PriceUnits
  ELSE 2 * account.quote_total + account.base_total * mid2

\* spread (line 120)
Smm_spread(mid2, vol) ==
  RMul(RMul(R(mid2, 2), R(smm_base_spread_bps, 10000)), R(1000 + vol, 1000))

\* final_center - mid_price in units of the spread (lines 124, 130-132):
\* final_center = mid_price + spread * (obi * obi_factor
\*                                     - risk_aversion * base_inv / 10)
Smm_center_shift(obi, base_inv) ==
  RSub(RMul(obi, R(smm_obi_factor_tenths, 10)),
       RMul(R(smm_risk_aversion_halves, 2), R(base_inv, 10 * QtyUnits)))

\* qty (lines 140-141, 158)
Smm_qty(equity2, mid2) ==
  RRound(RMax(R(equity2 * smm_order_size_pct_hundredths, 100 * mid2), RInt(1)))

\* one level of the ladder (lines 146-181); a price is the rounding of
\* mid_price + spread * (shift -/+ (1 + i * level_spacing_bps / 10) / 2)
Smm_level(b, i, mid2, shift, spread, qty) ==
  LET half == R(10 + i * smm_level_spacing_bps, 20)
      bid_p == RRoundSum(R(mid2, 2), RMul(spread, RSub(shift, half)))
      ask_p == RRoundSum(R(mid2, 2), RMul(spread, RAdd(shift, half)))
  IN  IF qty <= 0 \/ bid_p >= ask_p THEN <<>>
      ELSE <<Limit(b, "BUY", qty, bid_p, "GTT", TRUE, Some(smm_expiry_period)),
             Limit(b, "SELL", qty, ask_p, "GTT", TRUE, Some(smm_expiry_period))>>

RECURSIVE Smm_ladder(_, _, _, _, _, _)
Smm_ladder(b, i, mid2, shift, spread, qty) ==
  IF i >= smm_levels THEN <<>>
  ELSE Smm_level(b, i, mid2, shift, spread, qty)
         \o Smm_ladder(b, i + 1, mid2, shift, spread, qty)

\* the body of the loop for one book (lines 61-187)
Smm_book(b, book, accts, hist) ==
  IF book.bids = <<>> \/ book.asks = <<>> THEN [out |-> <<>>, logged |-> {}]
  ELSE IF b \notin DOMAIN accts THEN [out |-> <<>>, logged |-> {b}]
  ELSE LET mid2 == book.bids[1].price + book.asks[1].price
           spread == Smm_spread(mid2, Smm_vol(Smm_recent_prices(hist, mid2)))
           shift == Smm_center_shift(Smm_obi(book), accts[b].base_total)
       IN  [out |-> (IF accts[b].orders # <<>>
                     THEN <<Cancel(b, OrderIds(accts[b].orders))>> ELSE <<>>)
                    \o Smm_ladder(b, 0, mid2, shift, spread,
                                  Smm_qty(Smm_equity2(accts[b], mid2), mid2)),
            logged |-> {}]

RECURSIVE Smm_books(_, _, _, _)
Smm_books(ids, books, accts, hists) ==
  IF ids = <<>> THEN [out |-> <<>>, logged |-> {}]
  ELSE LET r == Smm_book(Head(ids), books[Head(ids)], accts,
                         Lookup(hists, Head(ids), <<>>))
           rest == Smm_books(Tail(ids), books, accts, hists)
       IN  [out |-> r.out \o rest.out, logged |-> r.logged \cup rest.logged]

\* respond after the polling loop (lines 56-195)
Smm_respond(st, accts, history) ==
  Smm_books(SortedIds(DOMAIN st.books), st.books, accts,
            Lookup(history, st.validator, EmptyMap))

\* the snapshot handed to update_async (line 194): the doubled mid of each
\* book, 0 for a book with an empty side
Smm_snapshot(st) ==
  [validator |-> st.validator,
   mids |-> [b \in DOMAIN st.books |->
               IF st.books[b].bids = <<>> \/ st.books[b].asks = <<>> THEN 0
               ELSE st.books[b].bids[1].price + st.books[b].asks[1].price]]

\* the history after the worker has stored a snapshot
Smm_store(history, snap) ==
  [v \in DOMAIN history \cup {snap.validator} |->
     IF v # snap.validator THEN history[v]
     ELSE [b \in DOMAIN Lookup(history, v, EmptyMap) \cup DOMAIN snap.mids |->
             IF b \in DOMAIN snap.mids
             THEN Append(Lookup(Lookup(history, v, EmptyMap), b, <<>>), snap.mids[b])
             ELSE history[v][b]]]

----------------------------------------------------------------------------
(* AdaptiveMarketMakerAgent *)
(* Quantities are counted in 1/QtyUnits of a base unit, prices in ticks.   *)

adaptive_min_order_size == 10      \* 0.1
adaptive_max_order_size == 200     \* 2.0
adaptive_max_inventory == 500      \* 5.0
adaptive_target_inventory == 0

\* place_inventory_rebalancing_order (lines 347-387); midquote is mid2 / 2.
\* The order's self-trade prevention mode is not modelled.
Adaptive_place_inventory_rebalancing_order(b, inventory, mid2) ==
  IF Abs(inventory) < adaptive_max_inventory THEN <<>>
  ELSE IF inventory > adaptive_max_inventory
  THEN <<Limit(b, "SELL",
               Max(Min(inventory - adaptive_target_inventory, adaptive_max_order_size),
                   adaptive_min_order_size),
               RoundHalfEven(mid2 * 999, 2000), "IOC", FALSE, NoneVal)>>
  ELSE <<Limit(b, "BUY",
               Max(Min(-inventory + adaptive_target_inventory, adaptive_max_order_size),
                   adaptive_min_order_size),
               RoundHalfEven(mid2 * 1001, 2000), "IOC", FALSE, NoneVal)>>

----------------------------------------------------------------------------
(* The environment: books, accounts and state updates *)

\* A book with one level per side; `detailed` publishes the L3 composition of
\* the level (one foreign order holding the whole level).
MkBook(bid, spread, bidq, askq, buyq, sellq, detailed) ==
  [bids |-> <<[price |-> bid, quantity |-> bidq,
               orders |-> IF detailed THEN <<[id |-> 900, quantity |-> bidq]>> ELSE <<>>]>>,
   asks |-> <<[price |-> bid + spread, quantity |-> askq,
               orders |-> IF detailed THEN <<[id |-> 901, quantity |-> askq]>> ELSE <<>>]>>,
   events |-> (IF buyq > 0 THEN <<[type |-> "t", side |-> 0, quantity |-> buyq]>> ELSE <<>>)
              \o (IF sellq > 0 THEN <<[type |-> "t", side |-> 1, quantity |-> sellq]>> ELSE <<>>)]

EmptyBook == [bids |-> <<>>, asks |-> <<>>, events |-> <<>>]

MkOrder(id, side, price, timestamp, quantity) ==
  [id |-> id, side |-> side, price |-> price, timestamp |-> timestamp, quantity |-> quantity]

MkAccount(own_base, own_quote, orders) ==
  [own_base |-> own_base, own_quote |-> own_quote, orders |-> orders]

BasePrice == 100       \* best bid of every published book, in ticks

\* resting orders of the account, by configuration number
L3Orders(k, now) ==
  CASE k = 0 -> <<>>
    [] k = 1 -> <<MkOrder(1, "BUY", BasePrice, now - PublishInterval, 3)>>
    [] k = 2 -> <<MkOrder(1, "BUY", BasePrice, now - PublishInterval, 3),
                  MkOrder(2, "SELL", BasePrice + 3, now - PublishInterval, 3)>>
    [] OTHER -> <<MkOrder(1, "BUY", BasePrice - 1, now - 3 * PublishInterval, 3),
                  MkOrder(3, "BUY", BasePrice, now - PublishInterval, 3),
                  MkOrder(2, "SELL", BasePrice + 2, now - 3 * PublishInterval, 3)>>

L3RichBooks ==
  {EmptyBook, MkBook(BasePrice, 0, 200, 200, 0, 0, FALSE)} \cup
  {MkBook(BasePrice, sp, q[1], q[2], buyq, 0, det) :
     sp \in {1, 3}, q \in {<<200, 200>>, <<900, 100>>, <<100, 900>>},
     buyq \in {0, 10}, det \in BOOLEAN}

\* own_base and own_quote: flat, flat after a loss, long at the cap, long beyond it
L3Balances == {<<0, 10000>>, <<0, 6000>>, <<40, 6000>>, <<41, 6000>>}

L3RichAccounts(now) ==
  {MkAccount(bal[1], bal[2], L3Orders(k, now)) : bal \in L3Balances, k \in 0..3}

\* the timestamp of the next update, while one of the max_ticks updates is
\* still to come
Timestamps(max_ticks) ==
  {k * PublishInterval : k \in {tick_no + 1} \cap 1..max_ticks}

\* The agent framework stores the update's accounts in self.accounts and
\* calls respond(state).  AcctDom[now] is the set of accounts an update at
\* time now may carry.
Publish(BookIds, BookDom, AcctDom, Validators, Faults, max_ticks) ==
  /\ pc = "idle"
  /\ tick_no < max_ticks
  /\ LET now == (tick_no + 1) * PublishInterval
     IN  \E v \in Validators, books \in [BookIds -> BookDom], have \in SUBSET BookIds,
            f \in Faults :
           \E accts \in [have -> AcctDom[now]] :
             /\ have # {} \/ Cardinality(BookIds) = 1
             /\ state' = [timestamp |-> now, validator |-> v, books |-> books]
             /\ accounts' = accts
             /\ fault' = f
  /\ tick_no' = tick_no + 1
  /\ pc' = "respond"
  /\ response' = <<>>
  /\ aborted' = FALSE
  /\ logged' = {}
  /\ replayed' = FALSE
  /\ l3_pre' = l3_books
  /\ UNCHANGED <<agentvars, restarted, fnvars>>

\* pnl < -dd_stop_frac * wealth0 (lines 410-412) for book b in the update st,
\* against the baseline the first pass leaves in store
L3LossSeen(b, st, accts, store) ==
  /\ b \in DOMAIN accts /\ b \in DOMAIN st.books /\ b \in DOMAIN store
  /\ L3_best_levels(st.books[b]).ok
  /\ L3_loss(accts[b], store[b],
             L3_best_levels(st.books[b]).bid + L3_best_levels(st.books[b]).ask)

\* The time at which each book's P&L fell below the loss threshold, kept
\* while now < t + int(loss_cooldown_mult * publish_interval); 0 otherwise.
L3LossAt(prev, st, accts, store) ==
  [b \in DOMAIN prev \cup DOMAIN st.books |->
     IF /\ b \in DOMAIN prev /\ prev[b] > 0
        /\ st.timestamp < prev[b] + IntTrunc(loss_cooldown_tenths * PublishInterval, 10)
     THEN prev[b]
     ELSE IF L3LossSeen(b, st, accts, store) THEN st.timestamp ELSE 0]

\* now < bs.cooldown_until or now < bs.loss_cooldown_until (line 213)
L3InWindow(bs, now) == now < bs.cooldown_until \/ now < bs.loss_cooldown_until

\* The number of consecutive updates that found each book inside a cooldown
\* window; store is self._books as the update finds it.
L3CoolTicks(prev, store, now) ==
  [b \in DOMAIN store |->
     IF L3InWindow(store[b], now) THEN Lookup(prev, b, 0) + 1 ELSE 0]

L3Return(r) ==
  /\ response' = r.out
  /\ aborted' = r.raised
  /\ logged' = r.logged
  /\ l3_books' = r.store
  /\ l3_client_id' = r.cid
  /\ l3_creator' = [b \in DOMAIN r.store |->
                      IF b \in DOMAIN l3_creator THEN l3_creator[b] ELSE state.validator]
  /\ l3_tripped' = (l3_tripped \/ r.killed)
  /\ l3_loss_at' = L3LossAt(l3_loss_at, state, accounts, r.store)
  /\ l3_cool_ticks' = L3CoolTicks(l3_cool_ticks, l3_books, state.timestamp)

L3Respond ==
  /\ pc = "respond"
  /\ L3Return(L3_respond(state, accounts, l3_books, l3_client_id))
  /\ pc' = "done"
  /\ l3_pre' = l3_books
  /\ UNCHANGED <<state, accounts, fault, tick_no, replayed, restarted, fnvars, smartvars, elite_last_mid, domvars,
                 obi_book_state>>

\* The response has been sent back to the validator: the request is over.
Deliver ==
  /\ pc = "done"
  /\ pc' = "idle"
  /\ state' = [state EXCEPT !.books = EmptyMap, !.validator = "-"]
  /\ accounts' = EmptyMap
  /\ fault' = NoFault
  /\ response' = <<>>
  /\ aborted' = FALSE
  /\ logged' = {}
  /\ replayed' = FALSE
  /\ l3_pre' = l3_books
  /\ restarted' = FALSE
  /\ UNCHANGED <<tick_no, agentvars, fnvars>>

InitCommon ==
  /\ pc = "idle"
  /\ state = [timestamp |-> 0, validator |-> "-", books |-> EmptyMap]
  /\ accounts = EmptyMap
  /\ fault = NoFault
  /\ response = <<>>
  /\ aborted = FALSE
  /\ logged = {}
  /\ tick_no = 0
  /\ replayed = FALSE
  /\ restarted = FALSE

InitL3 ==
  /\ l3_books = EmptyMap
  /\ l3_client_id = l3_client_id0
  /\ l3_creator = EmptyMap
  /\ l3_pre = EmptyMap
  /\ l3_tripped = FALSE
  /\ l3_loss_at = EmptyMap
  /\ l3_cool_ticks = EmptyMap

InitElite == elite_last_mid = EmptyMap

InitDom ==
  /\ dom_last_mid = EmptyMap
  /\ dom_ewma_var = EmptyMap
  /\ dom_last_fill_ts = EmptyMap
  /\ dom_current_validator = NoneVal
  /\ dom_fills = EmptyMap

InitOBI == obi_book_state = EmptyMap

\* no helper is called on its own
InitNoCall == fn_args = NoneVal /\ fn_result = NoneVal

\* initialize (lines 28-30); inventory is created by the first respond
InitSmart ==
  /\ smart_history = <<>>
  /\ smart_volatility = 0
  /\ smart_inventory = EmptyMap

InitSmm ==
  /\ smm_history = EmptyMap
  /\ smm_updating = FALSE
  /\ smm_pending = NoneVal
  /\ smm_sleeping = FALSE

InitAgents ==
  InitCommon /\ InitL3 /\ InitElite /\ InitDom /\ InitOBI /\ InitSmart /\ InitSmm

Init == InitAgents /\ InitNoCall

\* One validator, one book, the rich input domain.
L3PublishRich ==
  Publish({1}, L3RichBooks, [t \in Timestamps(MaxTicks) |-> L3RichAccounts(t)],
          {"A"},
            {NoFault, [book |-> 1, at |-> "limit_order"]}, MaxTicks)

NextL3 == L3PublishRich \/ L3Respond \/ Deliver

SpecL3 == Init /\ [][NextL3]_vars

\* One validator, two books, a narrow input domain, exceptions in either pass.
L3MultiBooks ==
  {EmptyBook, MkBook(BasePrice, 1, 200, 200, 0, 0, FALSE),
   MkBook(BasePrice, 3, 900, 100, 0, 0, TRUE)}

L3MultiAccounts(now) ==
  {MkAccount(bal[1], bal[2], L3Orders(k, now)) :
     bal \in {<<0, 10000>>, <<0, 6000>>}, k \in {0, 2}}

L3PublishMulti ==
  Publish({1, 2}, L3MultiBooks,
          [t \in Timestamps(MaxTicksMulti) |-> L3MultiAccounts(t)], {"A"},
            {NoFault, [book |-> 1, at |-> "first_pass"], [book |-> 2, at |-> "first_pass"],
             [book |-> 2, at |-> "enter"], [book |-> 1, at |-> "limit_order"]},
            MaxTicksMulti)

NextL3Multi == L3PublishMulti \/ L3Respond \/ Deliver

SpecL3Multi == Init /\ [][NextL3Multi]_vars

\* One validator, two books, enough updates for a loss cooldown to run out.
\* Book 1 moves between two mids and its account between a flat and a losing
\* balance; book 2 stands still and its account evens out the total.
MaxTicksCooldown == 8  \* state updates per behaviour of the cooldown runs

L3CoolBooks ==
  {MkBook(BasePrice, 1, 200, 200, 0, 0, FALSE), MkBook(BasePrice, 3, 200, 200, 0, 0, FALSE)}

L3CoolAccounts(now) ==
  {MkAccount(0, q, L3Orders(k, now)) : q \in {6000, 10000, 14000}, k \in {0, 1}}

L3PublishCooldown ==
  /\ Publish({1, 2}, L3CoolBooks,
             [t \in Timestamps(MaxTicksCooldown) |-> L3CoolAccounts(t)], {"A"},
             {NoFault}, MaxTicksCooldown)
  /\ state'.books[2] = MkBook(BasePrice, 1, 200, 200, 0, 0, FALSE)
  /\ DOMAIN accounts' = {1, 2}
  /\ accounts'[1].own_quote \in {6000, 10000}
  /\ accounts'[2].own_quote = 20000 - accounts'[1].own_quote
  /\ accounts'[2].orders = <<>>

NextL3Cooldown == L3PublishCooldown \/ L3Respond \/ Deliver

SpecL3Cooldown == Init /\ [][NextL3Cooldown]_vars

\* Two validators served by the one agent instance, one book.
L3PublishSessions ==
  Publish({1}, L3MultiBooks,
          [t \in Timestamps(MaxTicksMulti) |-> L3MultiAccounts(t)],
          {"A", "B"}, {NoFault}, MaxTicksMulti)

NextL3Sessions == L3PublishSessions \/ L3Respond \/ Deliver

SpecL3Sessions == Init /\ [][NextL3Sessions]_vars

\* A simulation start event reaches L3MarketMakerAgent between two updates.
\* The class defines no onStart handler and assigns _books in initialize
\* only (lines 72-74): the event changes nothing the agent keeps.
L3OnStart ==
  /\ pc = "idle"
  /\ tick_no > 0
  /\ ~restarted
  /\ restarted' = TRUE
  /\ UNCHANGED <<pc, state, accounts, fault, response, aborted, logged, tick_no,
                 replayed, l3_pre, agentvars, fnvars>>

\* One validator, one book, a simulation start between the updates.
L3PublishStart ==
  Publish({1}, L3MultiBooks,
          [t \in Timestamps(MaxTicks) |-> L3MultiAccounts(t)],
          {"A"}, {NoFault}, MaxTicks)

NextL3Start == L3PublishStart \/ L3Respond \/ Deliver \/ L3OnStart

SpecL3Start == Init /\ [][NextL3Start]_vars

----------------------------------------------------------------------------
(* EliteImbalanceMarketMaker: environment and actions *)

MkEliteAccount(base_total, base_free, quote_total, quote_free, fees, orders) ==
  [base_total |-> base_total, base_free |-> base_free,
   quote_total |-> quote_total, quote_free |-> quote_free,
   fees |-> fees, orders |-> orders]

EliteBooks ==
  {EmptyBook} \cup
  {MkBook(bid, sp, q[1], q[2], buyq, 0, FALSE) :
     bid \in {BasePrice, BasePrice + 2}, sp \in {1, 6},
     q \in {<<200, 200>>, <<900, 100>>}, buyq \in {0, 10}}

\* base total and free, quote total and free: inside the limit, at the limit
\* when the mid is BasePrice + 1/2, long beyond it with the base free or
\* reserved, short beyond it
EliteBalances ==
  {<<100, 100, 80000, 80000>>, <<100, 100, 200 * (2 * BasePrice + 1), 200 * (2 * BasePrice + 1)>>,
   <<400, 400, 80000, 80000>>, <<400, 0, 80000, 80000>>, <<-300, 0, 80000, 80000>>}

EliteOrders(k, now) ==
  IF k = 0 THEN <<>>
  ELSE <<MkOrder(1, "BUY", BasePrice - 5, now - PublishInterval, 100),
         MkOrder(2, "SELL", BasePrice + 3, now - PublishInterval, 100)>>

EliteAccounts(now) ==
  {MkEliteAccount(bal[1], bal[2], bal[3], bal[4], Some(fee), EliteOrders(k, now)) :
     bal \in EliteBalances, fee \in {0, 20}, k \in {0, 1}}

ElitePublish ==
  Publish({1}, EliteBooks, [t \in Timestamps(MaxTicksMulti) |-> EliteAccounts(t)],
          {"A"}, {NoFault}, MaxTicksMulti)

EliteReturn(r) ==
  /\ response' = r.out
  /\ logged' = r.logged
  /\ elite_last_mid' = (state.validator :> r.mids) @@ elite_last_mid

EliteRespond ==
  /\ pc = "respond"
  /\ EliteReturn(Elite_respond(state, accounts, elite_last_mid))
  /\ pc' = "done"
  /\ aborted' = FALSE
  /\ UNCHANGED <<state, accounts, fault, tick_no, replayed, restarted, fnvars, smartvars, l3_pre, l3vars, domvars,
                 obi_book_state>>

\* the orders of `orders` whose id is not in `ids`
RECURSIVE KeptOrders(_, _)
KeptOrders(orders, ids) ==
  IF orders = <<>> THEN <<>>
  ELSE (IF Head(orders).id \in ids THEN <<>> ELSE <<Head(orders)>>)
       \o KeptOrders(Tail(orders), ids)

\* the limit orders of `out` for book b as resting orders, ids from n upward
RECURSIVE PlacedOrders(_, _, _, _)
PlacedOrders(out, b, now, n) ==
  IF out = <<>> THEN <<>>
  ELSE IF Head(out).kind = "limit" /\ Head(out).book = b
  THEN <<MkOrder(n, Head(out).side, Head(out).price, now, Head(out).qty)>>
       \o PlacedOrders(Tail(out), b, now, n + 1)
  ELSE PlacedOrders(Tail(out), b, now, n)

RECURSIVE CancelledIds(_, _)
CancelledIds(out, b) ==
  IF out = <<>> THEN {}
  ELSE (IF Head(out).kind = "cancel" /\ Head(out).book = b THEN SeqToSet(Head(out).ids) ELSE {})
       \cup CancelledIds(Tail(out), b)

\* base reserved by the SELL orders, quote reserved by the BUY orders
RECURSIVE ReservedBase(_)
ReservedBase(orders) ==
  IF orders = <<>> THEN 0
  ELSE (IF Head(orders).side = "SELL" THEN Head(orders).quantity ELSE 0)
       + ReservedBase(Tail(orders))

RECURSIVE ReservedQuote(_)
ReservedQuote(orders) ==
  IF orders = <<>> THEN 0
  ELSE (IF Head(orders).side = "BUY" THEN Head(orders).quantity * Head(orders).price ELSE 0)
       + ReservedQuote(Tail(orders))

\* the account after the simulator applied the response with no fill: the
\* cancelled orders are gone and release what they reserved, the limit orders
\* rest and reserve
AfterResponse(account, out, b, now) ==
  [account EXCEPT
     !.orders = KeptOrders(@, CancelledIds(out, b)) \o PlacedOrders(out, b, now, 100),
     !.base_free = @ + ReservedBase(account.orders)
                     - ReservedBase(KeptOrders(account.orders, CancelledIds(out, b)))
                     - ReservedBase(PlacedOrders(out, b, now, 100)),
     !.quote_free = @ + ReservedQuote(account.orders)
                      - ReservedQuote(KeptOrders(account.orders, CancelledIds(out, b)))
                      - ReservedQuote(PlacedOrders(out, b, now, 100))]

\* The validator publishes the same snapshot again: nothing traded, the
\* account now holds what the last response left resting.
EliteReplay ==
  /\ pc = "done"
  /\ ~replayed
  /\ logged = {}
  /\ \A i \in 1..Len(response) : response[i].kind # "market"
  /\ accounts' = [b \in DOMAIN accounts |->
                    AfterResponse(accounts[b], response, b, state.timestamp)]
  /\ replayed' = TRUE
  /\ response' = <<>>
  /\ pc' = "respond"
  /\ UNCHANGED <<state, fault, aborted, logged, tick_no, l3_pre, agentvars, restarted,
                 fnvars>>

NextElite == ElitePublish \/ EliteRespond \/ EliteReplay \/ Deliver

SpecElite == Init /\ [][NextElite]_vars

----------------------------------------------------------------------------
(* DominantImbalanceMM: environment and actions *)

MkDomAccount(base_total, base_loan, base_collateral, fees, orders) ==
  [base_total |-> base_total, base_loan |-> base_loan,
   base_collateral |-> base_collateral, fees |-> fees, orders |-> orders]

DomBooks ==
  {EmptyBook, MkBook(BasePrice, 0, 200, 200, 0, 0, FALSE)} \cup
  {MkBook(bid, sp, q[1], q[2], buyq, 0, FALSE) :
     bid \in {BasePrice, BasePrice + 1}, sp \in {1, 4},
     q \in {<<200, 200>>, <<900, 100>>}, buyq \in {0, 10}}

\* resting orders: none, one, or as many as max_open_orders - 1
DomOrders(k, now) ==
  [i \in 1..k |-> MkOrder(i, IF i % 2 = 1 THEN "BUY" ELSE "SELL",
                          IF i % 2 = 1 THEN BasePrice - 2 ELSE BasePrice + 6,
                          now - PublishInterval, 50)]

DomAccounts(now) ==
  {MkDomAccount(base, 0, 0, fees, DomOrders(k, now)) :
     base \in {0, 300, 900}, fees \in {NoneVal, Some(50)},
     k \in {0, 1, MaxOpenOrders - 1}}

DomPublish ==
  Publish({1}, DomBooks, [t \in Timestamps(MaxTicksMulti) |-> DomAccounts(t)],
          {"A", "B"}, {NoFault}, MaxTicksMulti)

DomReturn(r) ==
  /\ response' = r.out
  /\ logged' = r.logged
  /\ dom_last_mid' = (state.validator :> r.last_mid) @@ dom_last_mid
  /\ dom_ewma_var' = (state.validator :> r.ewma_var) @@ dom_ewma_var

DomRespond ==
  /\ pc = "respond"
  /\ dom_current_validator' = Some(state.validator)
  /\ dom_fills' = (state.validator :> Lookup(dom_fills, state.validator, EmptyMap)) @@ dom_fills
  /\ DomReturn(Dom_respond(state, accounts, dom_last_mid, dom_ewma_var, dom_last_fill_ts))
  /\ pc' = "done"
  /\ aborted' = FALSE
  /\ UNCHANGED <<state, accounts, fault, tick_no, replayed, restarted, fnvars, smartvars, l3_pre, l3vars,
                 elite_last_mid, dom_last_fill_ts, obi_book_state>>

\* onStart (lines 73-77): a new simulation starts
DomOnStart ==
  /\ pc = "idle"
  /\ tick_no > 0
  /\ dom_last_mid # EmptyMap
  /\ restarted' = TRUE
  /\ dom_last_mid' = EmptyMap
  /\ dom_ewma_var' = EmptyMap
  /\ dom_last_fill_ts' = EmptyMap
  /\ dom_fills' = [v \in DOMAIN dom_fills |-> EmptyMap]
  /\ UNCHANGED <<pc, state, accounts, fault, response, aborted, logged, tick_no,
                 replayed, l3_pre, l3vars, elite_last_mid, dom_current_validator,
                 obi_book_state, fnvars, smartvars>>

\* onTrade (lines 79-93): one of our orders of book 1 traded at the time of
\* the last state update.  The order was placed in the session of some
\* validator v the agent has answered; the event carries no validator and
\* the handler files the fill under current_validator.
DomOnTrade ==
  /\ pc = "idle"
  /\ tick_no > 0
  /\ ~IsNone(dom_current_validator)
  /\ \E v \in DOMAIN dom_fills :
       dom_fills' = [dom_fills EXCEPT ![v] = (1 :> state.timestamp) @@ @]
  /\ dom_last_fill_ts' =
       (Val(dom_current_validator) :>
          ((1 :> state.timestamp) @@ Lookup(dom_last_fill_ts, Val(dom_current_validator), EmptyMap)))
       @@ dom_last_fill_ts
  /\ UNCHANGED <<pc, state, accounts, fault, response, aborted, logged, tick_no,
                 replayed, restarted, fnvars, smartvars, l3_pre, l3vars, elite_last_mid, dom_last_mid, dom_ewma_var,
                 dom_current_validator, obi_book_state>>

NextDom == DomPublish \/ DomRespond \/ DomOnStart \/ DomOnTrade \/ Deliver

SpecDom == Init /\ [][NextDom]_vars

\* The same agent on a book priced five times higher, where the position
\* limit max_base_pos is a fifth.
DomPriceyBooks ==
  {EmptyBook} \cup
  {MkBook(bid, 1, q[1], q[2], buyq, 0, FALSE) :
     bid \in {5 * BasePrice, 5 * BasePrice + 1},
     q \in {<<200, 200>>, <<900, 100>>}, buyq \in {0, 10}}

DomPublishPricey ==
  Publish({1}, DomPriceyBooks, [t \in Timestamps(MaxTicksMulti) |-> DomAccounts(t)],
          {"A"}, {NoFault}, MaxTicksMulti)

NextDomPricey == DomPublishPricey \/ DomRespond \/ DomOnStart \/ DomOnTrade \/ Deliver

SpecDomPricey == Init /\ [][NextDomPricey]_vars

----------------------------------------------------------------------------
(* OrderBookImbalanceMarketMaker: environment and actions *)

\* The lowest best bid of a book, in ticks, and state.config.miner_wealth, in
\* quote units: an inventory of 60 base units at the microprice
\* ObiBasePrice + 1/2 is worth exactly max_inventory_pct of the wealth
ObiBasePrice == 62
ObiMinerWealth == 125

\* levels 2..n of one side: prices p + side, p + 2 side, ..., each of quantity q
Levels(p, side, n, q) ==
  [i \in 1..n |-> [price |-> p + side * i, quantity |-> q, orders |-> <<>>]]

\* a book with obi_max_depth levels per side (or one bid level fewer); the
\* deeper levels of a side hold half the quantity of its best level
MkDeepBook(bid, spread, bidq, askq, short) ==
  [bids |-> <<[price |-> bid, quantity |-> bidq, orders |-> <<>>]>>
            \o Levels(bid, -1, obi_max_depth - (IF short THEN 2 ELSE 1), bidq \div 2),
   asks |-> <<[price |-> bid + spread, quantity |-> askq, orders |-> <<>>]>>
            \o Levels(bid + spread, 1, obi_max_depth - 1, askq \div 2),
   events |-> <<>>]

ObiBooks ==
  {EmptyBook, MkDeepBook(ObiBasePrice, 1, 200, 200, TRUE)} \cup
  {MkDeepBook(bid, 1, q[1], q[2], FALSE) :
     bid \in {ObiBasePrice, ObiBasePrice + 1}, q \in {<<200, 200>>, <<300, 100>>}}

MkObiAccount(base_total, base_loan, quote_total, quote_loan) ==
  [base_total |-> base_total, base_loan |-> base_loan,
   quote_total |-> quote_total, quote_loan |-> quote_loan]

\* flat, long below 80% of the limit, long at the limit with the microprice
\* ObiBasePrice + 1/2, long beyond it, short, short at 80% of the limit
ObiAccounts(now) ==
  {MkObiAccount(base, 0, 100000, 0) : base \in {0, 1200, 6000, 6300, -1200, -4800}}

ObiPublish ==
  Publish({1}, ObiBooks, [t \in Timestamps(MaxTicks) |-> ObiAccounts(t)],
          {"A"}, {NoFault}, MaxTicks)

ObiReturn(r) ==
  /\ response' = r.out
  /\ obi_book_state' = (state.validator :> r.histories) @@ obi_book_state

ObiRespond ==
  /\ pc = "respond"
  /\ ObiReturn(OBI_respond(state, accounts, obi_book_state, ObiMinerWealth))
  /\ pc' = "done"
  /\ aborted' = FALSE
  /\ logged' = {}
  /\ UNCHANGED <<state, accounts, fault, tick_no, replayed, restarted, fnvars, smartvars, l3_pre, l3vars,
                 elite_last_mid, domvars>>

NextObi == ObiPublish \/ ObiRespond \/ Deliver

SpecObi == Init /\ [][NextObi]_vars

----------------------------------------------------------------------------
(* SmartOrderBookAgent: environment and actions *)

\* A book with one level per side; own = 1: a resting BUY of ours was hit
\* for own_qty, own = -1: a resting SELL of ours was lifted, own = 0: a
\* trade between others.
MkSmartBook(bid, spread, bidq, askq, own, own_qty) ==
  [bids |-> <<[price |-> bid, quantity |-> bidq, orders |-> <<>>]>>,
   asks |-> <<[price |-> bid + spread, quantity |-> askq, orders |-> <<>>]>>,
   events |-> <<[type |-> "t", side |-> IF own = 1 THEN 1 ELSE 0, quantity |-> own_qty,
                 maker_agent_id |-> IF own = 0 THEN 0 ELSE smart_uid,
                 taker_agent_id |-> 0]>>]

SmartBooks ==
  {EmptyBook,
   MkSmartBook(BasePrice, 1, 200, 200, 0, 10),
   MkSmartBook(BasePrice, 1, 300, 100, 0, 10),
   MkSmartBook(BasePrice + 2, 2, 100, 300, 1, smart_max_pos),
   MkSmartBook(BasePrice + 2, 2, 200, 200, -1, smart_max_pos)}

\* The update lists its books in either order; the agent does not read
\* self.accounts.
SmartPublish ==
  /\ pc = "idle"
  /\ tick_no < MaxTicks
  /\ \E books \in [{1, 2} -> SmartBooks], order \in {<<1, 2>>, <<2, 1>>} :
       state' = [timestamp |-> (tick_no + 1) * PublishInterval, validator |-> "A",
                 books |-> books, order |-> order]
  /\ accounts' = EmptyMap
  /\ fault' = NoFault
  /\ tick_no' = tick_no + 1
  /\ pc' = "respond"
  /\ response' = <<>>
  /\ aborted' = FALSE
  /\ logged' = {}
  /\ replayed' = FALSE
  /\ l3_pre' = l3_books
  /\ UNCHANGED <<agentvars, restarted, fnvars>>

SmartReturn(r) ==
  /\ response' = r.loop.out
  /\ smart_history' = r.loop.history
  /\ smart_volatility' = r.loop.volatility
  /\ smart_inventory' = r.inventory

SmartRespond ==
  /\ pc = "respond"
  /\ SmartReturn(Smart_respond(state, state.order, smart_history, smart_volatility,
                               smart_inventory))
  /\ pc' = "done"
  /\ aborted' = FALSE
  /\ logged' = {}
  /\ UNCHANGED <<state, accounts, fault, tick_no, replayed, restarted, fnvars, l3_pre,
                 l3vars, elite_last_mid, domvars, obi_book_state, smmvars>>

NextSmart == SmartPublish \/ SmartRespond \/ Deliver

SpecSmart == Init /\ [][NextSmart]_vars

----------------------------------------------------------------------------
(* SmartMarketMaker: environment and actions *)

MkSmmAccount(base_total, quote_total, orders) ==
  [base_total |-> base_total, quote_total |-> quote_total, orders |-> orders]

SmmBooks ==
  {EmptyBook} \cup
  {MkBook(bid, 1, q[1], q[2], 0, 0, FALSE) :
     bid \in {BasePrice, BasePrice + 2}, q \in {<<200, 200>>, <<900, 100>>}}

SmmAccounts(now) ==
  {MkSmmAccount(bal[1], bal[2], IF k = 0 THEN <<>> ELSE EliteOrders(k, now)) :
     bal \in {<<0, 100000>>, <<1000, 100000>>, <<-1000, 0>>}, k \in {0, 1}}

SmmPublish ==
  Publish({1}, SmmBooks, [t \in Timestamps(MaxTicks) |-> SmmAccounts(t)],
          {"A"}, {NoFault}, MaxTicks)

\* the test of the polling loop (line 53) finds updating set
SmmPoll ==
  /\ pc = "respond"
  /\ ~smm_sleeping
  /\ smm_updating
  /\ smm_sleeping' = TRUE
  /\ UNCHANGED <<pc, state, accounts, fault, response, aborted, logged, tick_no, replayed,
                 l3_pre, restarted, fnvars, l3vars, elite_last_mid, domvars,
                 obi_book_state, smart_history, smart_volatility, smart_inventory,
                 smm_history, smm_updating, smm_pending>>

\* time.sleep(0.01) returns (line 54) and the loop tests again
SmmWake ==
  /\ pc = "respond"
  /\ smm_sleeping
  /\ smm_sleeping' = FALSE
  /\ UNCHANGED <<pc, state, accounts, fault, response, aborted, logged, tick_no, replayed,
                 l3_pre, restarted, fnvars, l3vars, elite_last_mid, domvars,
                 obi_book_state, smart_history, smart_volatility, smart_inventory,
                 smm_history, smm_updating, smm_pending>>

\* the loop is left, the response is built and the update is handed to the
\* history manager (lines 56-195)
SmmRespond ==
  /\ pc = "respond"
  /\ ~smm_sleeping
  /\ ~smm_updating
  /\ response' = Smm_respond(state, accounts, smm_history).out
  /\ logged' = Smm_respond(state, accounts, smm_history).logged
  /\ aborted' = FALSE
  /\ smm_pending' = Some(Smm_snapshot(state))
  /\ smm_updating' = TRUE
  /\ pc' = "done"
  /\ UNCHANGED <<state, accounts, fault, tick_no, replayed, l3_pre, restarted, fnvars,
                 l3vars, elite_last_mid, domvars, obi_book_state, smart_history,
                 smart_volatility, smart_inventory, smm_history, smm_sleeping>>

\* the background worker of the history manager finishes the update it was
\* given and clears updating; nothing obliges it to
SmmWorkerDone ==
  /\ smm_updating
  /\ smm_history' = Smm_store(smm_history, Val(smm_pending))
  /\ smm_pending' = NoneVal
  /\ smm_updating' = FALSE
  /\ UNCHANGED <<pc, state, accounts, fault, response, aborted, logged, tick_no, replayed,
                 l3_pre, restarted, fnvars, l3vars, elite_last_mid, domvars,
                 obi_book_state, smart_history, smart_volatility, smart_inventory,
                 smm_sleeping>>

NextSmm == SmmPublish \/ SmmPoll \/ SmmWake \/ SmmRespond \/ SmmWorkerDone \/ Deliver

SpecSmm == Init /\ [][NextSmm]_vars

\* respond returns: of the actions of NextSmm only SmmRespond takes this step,
\* and it can be taken exactly when the loop tests updating and finds it clear
SmmReturns == pc = "respond" /\ pc' = "done"

\* The agent's own thread keeps running: the loop goes on testing and
\* sleeping, and a test that finds updating clear leaves the loop (weak
\* fairness of SmmPoll, SmmWake and SmmRespond).  The worker thread belongs
\* to the history manager and is given no fairness.
SpecSmmFair ==
  /\ Init /\ [][NextSmm]_vars
  /\ WF_vars(SmmPoll) /\ WF_vars(SmmWake)
  /\ ([]<>~(pc = "respond" /\ ~smm_sleeping /\ ~smm_updating) \/ []<><<SmmReturns>>_vars)

----------------------------------------------------------------------------
(* Helpers called on their own *)

\* one side of a book from the quantities of its levels, best level first
MkSide(qs, top, step) ==
  [i \in 1..Len(qs) |->
     [price |-> top + step * (i - 1), quantity |-> qs[i], orders |-> <<>>]]

\* the quantities of the levels of one side: none, or up to MaxLevels levels
SideQuantities == UNION {[1..n -> {0, 100, 300}] : n \in 0..MaxLevels}

HelperBooks ==
  {[bids |-> MkSide(bq, BasePrice, -1), asks |-> MkSide(aq, BasePrice + 2, 1),
    events |-> <<>>] : bq \in SideQuantities, aq \in SideQuantities}

InitImbalance ==
  /\ InitAgents
  /\ fn_args \in {Some([book |-> book, depth |-> depth]) :
                    book \in HelperBooks, depth \in 1..MaxDepth}
  /\ fn_result = NoneVal

\* agent.calculate_order_book_imbalance(book, depth)
ObiImbalanceCall ==
  /\ IsNone(fn_result)
  /\ fn_result' = Some([fn |-> "OBI.calculate_order_book_imbalance",
                        depth |-> Val(fn_args).depth,
                        value |-> OBI_imbalance(Val(fn_args).book, Val(fn_args).depth)])
  /\ UNCHANGED <<tickvars, fn_args>>

\* agent._book_imbalance(book): the depth is self.imbalance_depth
DomImbalanceCall ==
  /\ IsNone(fn_result)
  /\ fn_result' = Some([fn |-> "Dominant._book_imbalance",
                        depth |-> dom_imbalance_depth,
                        value |-> Dom_book_imbalance(Val(fn_args).book)])
  /\ UNCHANGED <<tickvars, fn_args>>

NextImbalance == ObiImbalanceCall \/ DomImbalanceCall

SpecImbalance == InitImbalance /\ [][NextImbalance]_vars

\* the top of a book: best bid <= best ask, quantities 0, 1.00, 2.00 or 3.00
TopsOfBook ==
  {[best_bid |-> bid, best_ask |-> ask, bid_qty |-> bq, ask_qty |-> aq] :
     bid \in (BasePrice - 1)..(BasePrice + 1), ask \in (BasePrice - 1)..(BasePrice + 1),
     bq \in {0, 100, 200, 300}, aq \in {0, 100, 200, 300}}

InitMicroprice ==
  /\ InitAgents
  /\ fn_args \in {Some(top) : top \in {t \in TopsOfBook : t.best_bid <= t.best_ask}}
  /\ fn_result = NoneVal

\* agent._microprice(best_bid, best_ask, bq, aq)
DomMicropriceCall ==
  /\ IsNone(fn_result)
  /\ fn_result' = Some([fn |-> "Dominant._microprice",
                        value |-> Dom_microprice(Val(fn_args).best_bid, Val(fn_args).best_ask,
                                                 Val(fn_args).bid_qty, Val(fn_args).ask_qty)])
  /\ UNCHANGED <<tickvars, fn_args>>

\* agent.calculate_microprice(book), the book holding one level per side
ObiMicropriceCall ==
  /\ IsNone(fn_result)
  /\ fn_result' =
       Some([fn |-> "OBI.calculate_microprice",
             value |-> OBI_microprice(
               [bids |-> MkSide(<<Val(fn_args).bid_qty>>, Val(fn_args).best_bid, -1),
                asks |-> MkSide(<<Val(fn_args).ask_qty>>, Val(fn_args).best_ask, 1),
                events |-> <<>>])])
  /\ UNCHANGED <<tickvars, fn_args>>

NextMicroprice == DomMicropriceCall \/ ObiMicropriceCall

SpecMicroprice == InitMicroprice /\ [][NextMicroprice]_vars

\* microprices from ObiBasePrice to ObiBasePrice + 1 in quarters of a tick,
\* spreads of a tenth of a tick, one tick and three ticks, signals in [-1, 1]
InitQuotes ==
  /\ InitAgents
  /\ fn_args \in
       {Some([microprice |-> R(m, 4), spread |-> spread,
              imbalance_signal |-> R(i, 2), inventory_skew |-> R(k, 2)]) :
          m \in (4 * ObiBasePrice)..(4 * ObiBasePrice + 4),
          spread \in {R(1, 10), RInt(1), RInt(3)},
          i \in -2..2, k \in -2..2}
  /\ fn_result = NoneVal

\* agent.calculate_optimal_quotes(microprice, spread, imbalance_signal,
\* inventory_skew, price_decimals)
ObiQuotesCall ==
  /\ IsNone(fn_result)
  /\ fn_result' =
       Some([fn |-> "OBI.calculate_optimal_quotes",
             bid_price |-> OBI_quote_price(-1, Val(fn_args).microprice,
                                           RMul(Val(fn_args).spread, R(1, 2)),
                                           Val(fn_args).imbalance_signal,
                                           Val(fn_args).inventory_skew),
             ask_price |-> OBI_quote_price(1, Val(fn_args).microprice,
                                           RMul(Val(fn_args).spread, R(1, 2)),
                                           Val(fn_args).imbalance_signal,
                                           Val(fn_args).inventory_skew)])
  /\ UNCHANGED <<tickvars, fn_args>>

\* lines 424-466 of respond for book 1 and an account without inventory: the
\* quotes and the orders placed for them
ObiPlaceCall ==
  /\ IsNone(fn_result)
  /\ fn_result' =
       Some([fn |-> "OBI.respond",
             out |-> OBI_quotes(1, Val(fn_args).microprice,
                                RMul(Val(fn_args).spread, R(1, 2)),
                                Val(fn_args).imbalance_signal, RInt(0),
                                Val(fn_args).inventory_skew)])
  /\ UNCHANGED <<tickvars, fn_args>>

NextQuotes == ObiQuotesCall \/ ObiPlaceCall

SpecQuotes == InitQuotes /\ [][NextQuotes]_vars

\* inventories around -max_inventory, the target and +max_inventory, in
\* hundredths of a base unit; midquotes from BasePrice in half ticks
AdaptiveInventories ==
  {s * (adaptive_max_inventory + d) : s \in {-1, 1}, d \in {-100, -1, 0, 1, 100}} \cup {0}

InitRebalance ==
  /\ InitAgents
  /\ fn_args \in {Some([inventory |-> i, mid2 |-> m]) :
                    i \in AdaptiveInventories, m \in (2 * BasePrice)..(2 * BasePrice + 9)}
  /\ fn_result = NoneVal

\* agent.place_inventory_rebalancing_order(response, 1, inventory, midquote,
\* config) on an empty response (respond, lines 464-467)
AdaptiveRebalanceCall ==
  /\ IsNone(fn_result)
  /\ fn_result' =
       Some([fn |-> "Adaptive.place_inventory_rebalancing_order",
             out |-> Adaptive_place_inventory_rebalancing_order(
                       1, Val(fn_args).inventory, Val(fn_args).mid2)])
  /\ UNCHANGED <<tickvars, fn_args>>

NextRebalance == AdaptiveRebalanceCall

SpecRebalance == InitRebalance /\ [][NextRebalance]_vars

----------------------------------------------------------------------------
(* Reading a response *)

IsPlacement(ins) == ins.kind \in {"limit", "market"}

Placements(b) ==
  {i \in 1..Len(response) : response[i].book = b /\ IsPlacement(response[i])}

Cancels(b) ==
  {i \in 1..Len(response) : response[i].book = b /\ response[i].kind = "cancel"}

\* a book published with both sides and a positive spread
ValidBook(book) ==
  /\ book.bids # <<>> /\ book.asks # <<>>
  /\ book.asks[1].price > book.bids[1].price

----------------------------------------------------------------------------
(* Claims about L3MarketMakerAgent *)

\* inventory deviation of book b in the tick just answered
L3Inv(b) == accounts[b].own_base - Val(l3_books[b].base_target)

L3Tracked(b) ==
  /\ b \in DOMAIN accounts /\ b \in DOMAIN l3_books /\ b \in DOMAIN state.books
  /\ ~IsNone(l3_books[b].base_target)

\* the books that enter the aggregate of the tick just answered: published
\* with both sides and held by an account
L3Valued ==
  {b \in DOMAIN state.books \cap DOMAIN accounts :
     state.books[b].bids # <<>> /\ state.books[b].asks # <<>>}

\* doubled wealth of book b at the published mid
L3Wealth2(b) ==
  2 * accounts[b].own_quote
    + accounts[b].own_base * (state.books[b].bids[1].price + state.books[b].asks[1].price)

RECURSIVE SetSum(_, _)
SetSum(f, S) ==
  IF S = {} THEN 0
  ELSE LET x == CHOOSE y \in S : TRUE IN f[x] + SetSum(f, S \ {x})

\* aggregate P&L < -dd_stop_frac * aggregate baseline, the baseline positive
L3DrawdownStop ==
  /\ \A b \in L3Valued : b \in DOMAIN l3_books /\ ~IsNone(l3_books[b].wealth0)
  /\ LET w0 == SetSum([b \in L3Valued |-> Val(l3_books[b].wealth0)], L3Valued)
         pnl == SetSum([b \in L3Valued |-> L3Wealth2(b) - Val(l3_books[b].wealth0)], L3Valued)
     IN  w0 > 0 /\ 100 * pnl < -(dd_stop_pct * w0)

\* C1: whenever a book's inventory deviation exceeds the hard cap, the tick's
\* response holds a risk-reducing order for the book (SELL when long, BUY when
\* short) and no new limit order on the risk-increasing side, in every
\* per-book state (here: a valid book, no exception, no kill-switch).
C1_HardCapAlwaysDerisks ==
  (pc = "done" /\ fault = NoFault /\ ~aborted /\ ~L3DrawdownStop) =>
    \A b \in DOMAIN state.books :
      (/\ L3Tracked(b) /\ ValidBook(state.books[b])
       /\ Abs(L3Inv(b)) > inv_cap_base)
      => LET reduce == IF L3Inv(b) > 0 THEN "SELL" ELSE "BUY"
         IN  /\ \E i \in Placements(b) : response[i].side = reduce
             /\ \A i \in Placements(b) :
                  response[i].kind = "limit" => response[i].side = reduce

\* every open order of every book of the account is in a cancel of that book
AllOrdersCancelled ==
  \A b \in DOMAIN accounts :
    \A k \in 1..Len(accounts[b].orders) :
      \E i \in Cancels(b) : accounts[b].orders[k].id \in SeqToSet(response[i].ids)

\* C2: in every answered tick whose aggregate P&L is below -dd_stop_frac times
\* the aggregate baseline wealth, the response cancels every open order of
\* every book of the account and holds no limit or market order for any book.
C2_KillSwitchCancelsAll ==
  (pc = "done" /\ ~aborted /\ L3DrawdownStop) =>
    /\ \A i \in 1..Len(response) : ~IsPlacement(response[i])
    /\ AllOrdersCancelled

\* the kill-switch fired with open orders in two books, one of them published
\* empty in this tick
C2_Witness ==
  /\ pc = "done" /\ ~aborted /\ L3DrawdownStop
  /\ DOMAIN accounts = {1, 2}
  /\ accounts[1].orders # <<>> /\ accounts[2].orders # <<>>
  /\ state.books[2] = EmptyBook
  /\ Len(response) = 2

\* C3: once the kill-switch has fired in a tick, no later tick places an order.
C3_KillSwitchLatches ==
  (pc = "done" /\ l3_tripped) => \A i \in 1..Len(response) : ~IsPlacement(response[i])

\* C4: a BUY quote and a SELL quote emitted for the same book in one tick
\* satisfy BUY price < SELL price.
C4_L3QuotesDoNotCross ==
  pc = "done" =>
    \A i, j \in 1..Len(response) :
      (/\ response[i].kind = "limit" /\ response[j].kind = "limit"
       /\ response[i].book = response[j].book
       /\ response[i].side = "BUY" /\ response[j].side = "SELL")
      => response[i].price < response[j].price

Without(f, x) == [b \in DOMAIN f \ {x} |-> f[b]]

Intents(b, out) == SelectSeq(out, LAMBDA ins : ins.book = b)

\* C8: an exception while one book is processed does not abort the tick, and
\* every other book gets the intents it gets when the failing book is not
\* published at all.
C8_L3FailureIsolated ==
  (pc = "done" /\ fault.at # "none") =>
    /\ ~aborted
    /\ \A b \in DOMAIN state.books \ {fault.book} :
         Intents(b, response)
           = Intents(b, L3_respond([state EXCEPT !.books = Without(@, fault.book)],
                                   Without(accounts, fault.book), l3_pre, l3_client_id).out)

\* C9: a book whose pipeline raised has no instruction at all in the response.
C9_L3RaisingBookHasNoIntent ==
  pc = "done" => \A b \in logged : Placements(b) \cup Cancels(b) = {}

\* C10: a tick of one validator leaves untouched every per-book state that was
\* created in a tick of another validator.
C10_L3StatePerSession ==
  pc = "done" =>
    \A b \in DOMAIN l3_pre :
      l3_creator[b] # state.validator => l3_books[b] = l3_pre[b]

\* C11: in the first tick answered after a simulation start event, every
\* book published with both sides and held by an account has its per-book
\* state as a first observation leaves it: the wealth baseline and the
\* inventory baseline are the wealth and the base balance of this tick.
C11_L3StartResetsState ==
  (pc = "done" /\ restarted /\ ~aborted) =>
    \A b \in L3Valued :
      /\ b \in DOMAIN l3_books
      /\ l3_books[b].wealth0 = Some(L3Wealth2(b))
      /\ l3_books[b].base_target = Some(accounts[b].own_base)

\* C20: once a book's P&L versus its baseline has fallen below the loss
\* threshold at time t, every later tick of the book with a timestamp before
\* t + loss_cooldown_mult * publish_interval places no order for the book
\* and cancels the orders it has resting.
C20_L3LossCooldownSuspendsBook ==
  pc = "done" =>
    \A b \in DOMAIN l3_loss_at :
      (l3_loss_at[b] > 0 /\ l3_loss_at[b] < state.timestamp) =>
        /\ \A i \in 1..Len(response) :
             response[i].book = b => ~IsPlacement(response[i])
        /\ (b \in DOMAIN accounts /\ accounts[b].orders # <<>>) =>
             \E i \in 1..Len(response) :
               response[i] = Cancel(b, OrderIds(accounts[b].orders))

\* the quotes the pipeline of lines 290-353 computes for book b in the tick
\* just answered
L3Desired(b) ==
  L3_quotes(state.books[b], accounts[b], L3_best_levels(state.books[b]),
            L3_depth_imbalance(state.books[b], Max(1, depth_levels)),
            L3_trade_imbalance(state.books[b]), L3Inv(b),
            L3_toxic(l3_books[b].vol_ewma,
                     L3_depth_imbalance(state.books[b], Max(1, depth_levels)),
                     L3_trade_imbalance(state.books[b])))

\* book b went through the quoting pipeline in the tick just answered
L3Quoted(b) ==
  /\ b \in L3Valued /\ L3Tracked(b)
  /\ L3_best_levels(state.books[b]).ask > L3_best_levels(state.books[b]).bid
  /\ b \in DOMAIN l3_pre =>
       /\ state.timestamp >= l3_pre[b].cooldown_until
       /\ state.timestamp >= l3_pre[b].loss_cooldown_until
  /\ ~L3_hard_cap(L3Inv(b))
  /\ ~L3DrawdownStop

\* a resting order is Stale: too old, or (where quotes were computed) further
\* from the desired price of its side than the tolerance
L3IsStale(b, o) ==
  \/ state.timestamp - o.timestamp > IntTrunc(max_order_age_tenths * PublishInterval, 10)
  \/ /\ L3Quoted(b)
     /\ Abs(o.price - (IF o.side = "BUY" THEN L3Desired(b).bid_px
                                          ELSE L3Desired(b).ask_px)) > reprice_ticks

\* C21: every resting order of the account that is Stale (older than
\* max_order_age_mult * publish_interval, or priced further than the tick
\* tolerance from the desired quote of its side) has its id in a cancel
\* instruction of the tick's response, however many orders rest on a side.
C21_L3StaleOrdersCancelled ==
  (pc = "done" /\ ~aborted /\ logged = {}) =>
    \A b \in DOMAIN accounts :
      \A k \in 1..Len(accounts[b].orders) :
        L3IsStale(b, accounts[b].orders[k]) =>
          accounts[b].orders[k].id \in CancelledIds(response, b)

\* a resting order of book b on `side` that this tick's response does not
\* cancel and whose price is within the tolerance of the desired price px
L3KeptNear(b, side, px) ==
  \E k \in 1..Len(accounts[b].orders) :
    /\ accounts[b].orders[k].side = side
    /\ accounts[b].orders[k].id \notin CancelledIds(response, b)
    /\ Abs(accounts[b].orders[k].price - px) < reprice_ticks

\* C22: a new resting quote (a GTT limit order) is placed on a side of a book
\* only if the side is quoted (the pipeline ran and did not suppress it), the
\* quantity is at least min_order_size, and no resting order of the account
\* on that side is kept within the price tolerance.
C22_L3PlacesOnlyOnFreeSide ==
  (pc = "done" /\ ~aborted) =>
    \A i \in 1..Len(response) :
      (response[i].kind = "limit" /\ response[i].tif = "GTT") =>
        /\ L3Quoted(response[i].book)
        /\ IF response[i].side = "BUY"
           THEN L3Desired(response[i].book).quote_bid
           ELSE L3Desired(response[i].book).quote_ask
        /\ response[i].qty >= min_order_size
        /\ ~L3KeptNear(response[i].book, response[i].side, response[i].price)

\* the quotes of lines 290-353 for book b without the toxic flag
L3Calm(b) ==
  L3_quotes(state.books[b], accounts[b], L3_best_levels(state.books[b]),
            L3_depth_imbalance(state.books[b], Max(1, depth_levels)),
            L3_trade_imbalance(state.books[b]), L3Inv(b), FALSE)

\* twice the mid of book b in the tick just answered
L3Mid2(b) == L3_best_levels(state.books[b]).bid + L3_best_levels(state.books[b]).ask

\* book b was quoted this tick with vol_ewma above vol_toxic_threshold, a
\* trade imbalance beyond trade_imb_toxic_threshold, and the mid moved since
\* the last tick in the direction of the trades
L3ToxicMove(b) ==
  /\ L3Quoted(b) /\ b \in DOMAIN l3_pre /\ ~IsNone(l3_pre[b].mid_last)
  /\ l3_books[b].vol_ewma > vol_toxic_threshold_ppm
  /\ 100 * Abs(L3_trade_imbalance(state.books[b]).n)
       > trade_imb_toxic_threshold_pct * L3_trade_imbalance(state.books[b]).d
  /\ (L3Mid2(b) - Val(l3_pre[b].mid_last)) * L3_trade_imbalance(state.books[b]).n > 0

\* the limit order o is further from the market than the touch of its side,
\* or further than the price it would have without the toxic flag
L3MovedAway(o) ==
  IF o.side = "SELL"
  THEN \/ o.price > L3_best_levels(state.books[o.book]).ask
       \/ o.price > L3Calm(o.book).ask_px
  ELSE \/ o.price < L3_best_levels(state.books[o.book]).bid
       \/ o.price < L3Calm(o.book).bid_px

\* C25: when toxic flow is detected for a book (trade flow and price move
\* both beyond their thresholds and of the same sign), the quote on the side
\* in the direction of the move (the ask on an up-move, the bid on a
\* down-move) is moved away from the touch or is not emitted, whatever the
\* inventory.
C25_L3ToxicSideRetreats ==
  (pc = "done" /\ ~aborted) =>
    \A i \in 1..Len(response) :
      (/\ response[i].kind = "limit" /\ response[i].tif = "GTT"
       /\ L3ToxicMove(response[i].book)
       /\ response[i].side =
            (IF L3Mid2(response[i].book) > Val(l3_pre[response[i].book].mid_last)
             THEN "SELL" ELSE "BUY")) =>
        L3MovedAway(response[i])

\* C29: every cooldown ends.  An update that finds a book inside a cooldown
\* window (now < cooldown_until or now < loss_cooldown_until) leaves the
\* book's cooldown_until, loss_cooldown_until, vol_ewma and mid_last as they
\* were, and with timestamps advancing by publish_interval a book is found
\* inside a window by at most ceil(loss_cooldown_mult) - 1 consecutive updates.
C29_L3CooldownEnds ==
  /\ \A b \in DOMAIN l3_pre \cap DOMAIN l3_books :
       L3InWindow(l3_pre[b], state.timestamp) =>
         /\ l3_books[b].cooldown_until = l3_pre[b].cooldown_until
         /\ l3_books[b].loss_cooldown_until = l3_pre[b].loss_cooldown_until
         /\ l3_books[b].vol_ewma = l3_pre[b].vol_ewma
         /\ l3_books[b].mid_last = l3_pre[b].mid_last
  /\ \A b \in DOMAIN l3_cool_ticks :
       l3_cool_ticks[b] <= (loss_cooldown_tenths + 9) \div 10 - 1

\* the last update of a loss cooldown: book 1 has been found inside the
\* window ceil(loss_cooldown_mult) - 1 times in a row, its resting order was
\* cancelled, and the mid it shows is not the mid_last the agent keeps
C29_Witness ==
  /\ pc = "done" /\ ~aborted
  /\ 1 \in DOMAIN l3_cool_ticks
  /\ l3_cool_ticks[1] = (loss_cooldown_tenths + 9) \div 10 - 1
  /\ 1 \in CancelledIds(response, 1)
  /\ ValidBook(state.books[1])
  /\ l3_books[1].mid_last # Some(state.books[1].bids[1].price + state.books[1].asks[1].price)

\* how many times the cancel instructions of `out` for book b name the id
RECURSIVE CancelCount(_, _, _)
CancelCount(out, b, id) ==
  IF out = <<>> THEN 0
  ELSE (IF Head(out).kind = "cancel" /\ Head(out).book = b
        THEN Len(SelectSeq(Head(out).ids, LAMBDA x : x = id)) ELSE 0)
       + CancelCount(Tail(out), b, id)

\* C30: within one response no order id is cancelled twice: for every book,
\* each resting order id of the account is named by at most one cancel
\* instruction of the response and at most once inside it.
C30_L3NoIdCancelledTwice ==
  pc = "done" =>
    \A b \in DOMAIN accounts : \A k \in 1..Len(accounts[b].orders) :
      CancelCount(response, b, accounts[b].orders[k].id) <= 1

\* C19: every limit order of a response carries an expiry period, and the
\* period is strictly positive, the forced de-risk orders included.
C19_L3LimitOrdersExpire ==
  pc = "done" =>
    \A i \in 1..Len(response) :
      response[i].kind = "limit" =>
        /\ ~IsNone(response[i].expiry)
        /\ Val(response[i].expiry) > 0

----------------------------------------------------------------------------
(* Claims about EliteImbalanceMarketMaker *)

\* C5: when respond runs again on the same snapshot and state, the account
\* holding what the first run left resting and nothing filled, the response
\* has no new limit order on a side whose resting order is within the price
\* tolerance of the new quote, and does not cancel such an order.
C5_EliteReplayIsIdempotent ==
  (pc = "done" /\ replayed) =>
    \A b \in DOMAIN accounts :
      \A i \in Placements(b) :
        response[i].kind = "limit" =>
          \A k \in 1..Len(accounts[b].orders) :
            ~(/\ accounts[b].orders[k].side = response[i].side
              /\ Abs(accounts[b].orders[k].price - response[i].price)
                   <= elite_cancel_tolerance_ticks)

\* inventory deviation of book b in the tick just answered (lines 218-219)
EliteInvDev(b) ==
  RSub(Elite_inventory_frac(accounts[b],
         state.books[b].bids[1].price + state.books[b].asks[1].price),
       R(elite_inv_target_pct, 100))

\* the deviation is where the size is scaled down (inv_pressure > 0.7) and
\* not beyond the hard limit inv_limit_frac
EliteSoftCap(b) ==
  /\ b \in DOMAIN accounts /\ b \in DOMAIN state.books
  /\ state.books[b].bids # <<>> /\ state.books[b].asks # <<>>
  /\ RLt(R(7 * elite_inv_limit_pct, 1000), RAbs(EliteInvDev(b)))
  /\ ~Elite_beyond_limit(EliteInvDev(b))

\* C24: in the soft-cap regime (deviation above the soft cap, not above the
\* hard cap) the quantity quoted on the side that increases the deviation
\* (BUY when long, SELL when short) is never larger than the quantity quoted
\* on the side that reduces it.
C24_EliteSoftCapShrinksRiskySide ==
  pc = "done" =>
    \A b \in DOMAIN accounts : EliteSoftCap(b) =>
      \A i, j \in 1..Len(response) :
        (/\ response[i].kind = "limit" /\ response[i].book = b /\ response[i].side = "BUY"
         /\ response[j].kind = "limit" /\ response[j].book = b /\ response[j].side = "SELL") =>
          IF EliteInvDev(b).n > 0 THEN response[i].qty <= response[j].qty
          ELSE response[j].qty <= response[i].qty

----------------------------------------------------------------------------
(* Claims about DominantImbalanceMM *)

\* C7: whenever the account holds at least max_open_orders - 1 open orders in
\* a book published with both sides and a positive spread, the response for
\* the book is exactly one cancel that lists all of them, and nothing is
\* placed for the book.
C7_DomBulkCancelAtOrderLimit ==
  pc = "done" =>
    \A b \in DOMAIN state.books \cap DOMAIN accounts :
      (ValidBook(state.books[b]) /\ Len(accounts[b].orders) >= MaxOpenOrders - 1) =>
        /\ Placements(b) = {}
        /\ Cardinality(Cancels(b)) = 1
        /\ \A i \in Cancels(b) :
             SeqToSet(response[i].ids) = SeqToSet(OrderIds(accounts[b].orders))

\* C13: every limit order of a response has a quantity within
\* [min_qty, max_qty] (quantities are whole multiples of the volume
\* precision), whether or not the toxicity and inactivity reductions applied.
C13_DomQuantityWithinBounds ==
  pc = "done" =>
    \A i \in 1..Len(response) :
      response[i].kind = "limit" =>
        response[i].qty >= dom_min_qty /\ response[i].qty <= dom_max_qty

\* respond is about to reach _update_vol for book 1 (lines 169-198)
DomUpdatesVol ==
  /\ pc = "respond"
  /\ ValidBook(state.books[1])
  /\ 1 \in DOMAIN accounts
  /\ IsNone(accounts[1].fees) \/ Val(accounts[1].fees) <= dom_max_maker_fee_e4

\* what _last_mid and _ewma_var hold for book 1 and the validator of the
\* update, 0 when they hold nothing
DomPrevMid == Lookup(Lookup(dom_last_mid, state.validator, EmptyMap), 1, 0)

DomPrevVar == Lookup(Lookup(dom_ewma_var, state.validator, EmptyMap), 1, 0)

DomMid2 == state.books[1].bids[1].price + state.books[1].asks[1].price

C23_DomHighFeeCancelsAll ==
  (pc = "done" /\ logged = {}) =>
    \A b \in DOMAIN accounts \cap DOMAIN state.books :
      (~IsNone(accounts[b].fees) /\ Val(accounts[b].fees) > dom_max_maker_fee_e4) =>
        /\ \A k \in 1..Len(accounts[b].orders) :
             accounts[b].orders[k].id \in CancelledIds(response, b)
        /\ \A i \in 1..Len(response) :
             response[i].book = b => response[i].kind # "limit"

\* C28: a fill is attributed to the session that produced it: the last-fill
\* time the agent keeps for a validator and a book is the time of the last
\* fill of an order of that validator's session, whatever the interleaving
\* of respond calls and onTrade events.
C28_DomFillsAttributedToSession ==
  \A v \in DOMAIN dom_fills \cup DOMAIN dom_last_fill_ts :
    Lookup(dom_last_fill_ts, v, EmptyMap) = Lookup(dom_fills, v, EmptyMap)

----------------------------------------------------------------------------
(* Claims about OrderBookImbalanceMarketMaker *)

\* the book is deep enough to be processed
ObiEligible(b) ==
  /\ b \in DOMAIN accounts
  /\ state.books[b].bids # <<>> /\ state.books[b].asks # <<>>
  /\ Len(state.books[b].bids) >= obi_max_depth

\* inventory value of book b over the initial capital, as a fraction
ObiInventoryPct(b) ==
  OBI_inventory_pct(accounts[b], OBI_microprice(state.books[b]), ObiMinerWealth)

\* C6: a book whose absolute inventory deviation equals the hard cap exactly
\* is quoted as the quoting rules alone would quote it: the hard-cap
\* suppression of quoting is not triggered at equality.
C6_ObiCapIsExclusive ==
  pc = "done" =>
    \A b \in DOMAIN state.books :
      (ObiEligible(b) /\ RAbs(ObiInventoryPct(b)) = R(obi_max_inventory_pct, 100)) =>
        Intents(b, response)
          = OBI_quotes(b, OBI_microprice(state.books[b]),
                       OBI_half_spread(OBI_microprice(state.books[b]),
                         OBI_volatility(obi_book_state[state.validator][b])),
                       OBI_imbalance_signal(state.books[b]), ObiInventoryPct(b),
                       OBI_inventory_skew(ObiInventoryPct(b)))

----------------------------------------------------------------------------
(* Claims about SmartOrderBookAgent *)

\* C12: for the update being answered, processing its books in one order or
\* in the other gives every book the same instructions and leaves the same
\* state behind.
C12_SmartOrderIndependent ==
  pc = "respond" =>
    LET r12 == Smart_respond(state, <<1, 2>>, smart_history, smart_volatility, smart_inventory)
        r21 == Smart_respond(state, <<2, 1>>, smart_history, smart_volatility, smart_inventory)
    IN  /\ \A b \in {1, 2} : Intents(b, r12.loop.out) = Intents(b, r21.loop.out)
        /\ r12.inventory = r21.inventory

\* C14: every BUY limit order of a response is priced strictly below the best
\* ask of its book in the update, and every SELL limit order strictly above
\* the best bid.
C14_SmartQuotesInsideTouch ==
  pc = "done" =>
    \A i \in 1..Len(response) :
      response[i].kind = "limit" =>
        IF response[i].side = "BUY"
        THEN response[i].price < state.books[response[i].book].asks[1].price
        ELSE response[i].price > state.books[response[i].book].bids[1].price

----------------------------------------------------------------------------
(* Claims about SmartMarketMaker *)

\* C26: the wait of SmartMarketMaker.respond for the previous background
\* history update is bounded: once respond has been called it leaves the
\* polling loop and returns a response, whatever the history worker does.
C26_SmmRespondReturns == (pc = "respond") ~> (pc = "done")

----------------------------------------------------------------------------
(* Claims about the helpers *)

\* the total quantity of the top `depth` levels of both sides
TopQuantity(book, depth) ==
  SumQuantity(Take(book.bids, depth)) + SumQuantity(Take(book.asks, depth))

\* C16: the imbalance of a book at a depth >= 1 lies in [-1, 1], and is 0
\* when the total quantity of the top `depth` levels of both sides is 0, also
\* for a book without levels.
C16_ImbalanceBounded ==
  ~IsNone(fn_result) =>
    /\ -Val(fn_result).value.d <= Val(fn_result).value.n
    /\ Val(fn_result).value.n <= Val(fn_result).value.d
    /\ TopQuantity(Val(fn_args).book, Val(fn_result).depth) = 0
         => Val(fn_result).value.n = 0

\* calculate_order_book_imbalance has returned 0 for a book without levels
C16_Witness ==
  /\ ~IsNone(fn_result)
  /\ Val(fn_result).fn = "OBI.calculate_order_book_imbalance"
  /\ Val(fn_args).book.bids = <<>> /\ Val(fn_args).book.asks = <<>>
  /\ Val(fn_result).value = RInt(0)

\* C17: for a top of book with best bid <= best ask and non-negative
\* quantities, best bid <= microprice <= best ask, and the microprice is the
\* midpoint when the two quantities sum to 0 and when they are equal.
C17_MicropriceWithinTouch ==
  ~IsNone(fn_result) =>
    /\ ~RLt(Val(fn_result).value, RInt(Val(fn_args).best_bid))
    /\ ~RLt(RInt(Val(fn_args).best_ask), Val(fn_result).value)
    /\ (Val(fn_args).bid_qty + Val(fn_args).ask_qty = 0
          \/ Val(fn_args).bid_qty = Val(fn_args).ask_qty)
         => Val(fn_result).value = R(Val(fn_args).best_bid + Val(fn_args).best_ask, 2)

\* _microprice has returned 100 for bid (99, 2) and ask (101, 2)
C17_Witness ==
  /\ ~IsNone(fn_result)
  /\ Val(fn_result).fn = "Dominant._microprice"
  /\ Val(fn_args) = [best_bid |-> BasePrice - 1, best_ask |-> BasePrice + 1,
                     bid_qty |-> 200, ask_qty |-> 200]
  /\ Val(fn_result).value = RInt(BasePrice)

\* the orders of respond are on their side of the microprice, by at least
\* min_edge_bps
ObiPlacedWithEdge ==
  (~IsNone(fn_result) /\ Val(fn_result).fn = "OBI.respond") =>
    \A i \in 1..Len(Val(fn_result).out) :
      /\ IF Val(fn_result).out[i].side = "BUY"
         THEN RLt(RInt(Val(fn_result).out[i].price), Val(fn_args).microprice)
         ELSE RLt(Val(fn_args).microprice, RInt(Val(fn_result).out[i].price))
      /\ ~RLt(RMul(RAbs(RSub(RInt(Val(fn_result).out[i].price), Val(fn_args).microprice)),
                   RInt(10000)),
              RMul(RInt(obi_min_edge_bps), Val(fn_args).microprice))

C27_RebalanceReducesExposure ==
  (~IsNone(fn_result) /\ Val(fn_result).fn = "Adaptive.place_inventory_rebalancing_order") =>
    \A i \in 1..Len(Val(fn_result).out) :
      /\ Abs(Val(fn_args).inventory) > adaptive_max_inventory
      /\ Val(fn_result).out[i].side = (IF Val(fn_args).inventory > 0 THEN "SELL" ELSE "BUY")

====
